---- MODULE Spec2Model ----
(***************************************************************************)
(* A model of the ETABS automation scripts (SRC/Etabs_projects): the       *)
(* return-code gate check_ret, the frame-path batch load assignment, the   *)
(* analysis runner, the connector, the configuration-switch tool and its   *)
(* command line, the mesh grids and meshed elements, the shear-wall plan   *)
(* layout, the frame columns and beams, the story-drift extraction and     *)
(* the response spectrum.  Python floats are modelled by binary floating   *)
(* point of MantissaBits significant bits, rounded to nearest even.        *)
(*                                                                         *)
(* Calls into the external application are the environment: each call      *)
(* returns a status code or raises.  sys.exit raises SystemExit, which is  *)
(* not an Exception: no `except Exception` handler of the repository       *)
(* catches it, so it ends the process (proc = "exited").                   *)
(***************************************************************************)
EXTENDS Integers, Sequences, FiniteSets, TLC

VARIABLES
    System,     \* utils/dotnet.py global System: "None" until the loader sets it
    proc,       \* "running", or "exited" once sys.exit has been called
    comp,       \* which part of the program this behaviour exercises
    cr_call,    \* check_ret: the arguments of the call under study
    cr_result,  \* check_ret: whether the call was made, and what it did
    fl_pc,      \* frame loads: where assign_all_frame_loads_fixed stands
    fl_members, \* frame loads: the area objects, beams and columns of the model
    fl_todo,    \* frame loads: the list the running batch iterates over
    fl_i,       \* frame loads: index in fl_todo of the next member
    fl_count,   \* frame loads: the batch's success counter (beam_load_count, ...)
    fl_failed,  \* frame loads: the batch's failed_beams / failed_columns / failed_slabs
    fl_tried,   \* frame loads: members a load-assignment call was made for (history)
    fl_bad,     \* frame loads: members whose call raised or returned a bad code (history)
    an_pc,      \* analysis: the statement the run stands at
    an_entry,   \* analysis: the function the run entered by
    an_sap_model, \* analysis: whether the sap_model handle is set (truthy)
    an_cases,   \* analysis: load_cases_to_run
    an_delete,  \* analysis: delete_old_results
    an_defined, \* analysis: defined_cases
    an_k,       \* analysis: index in an_cases of the next case of the flag loop
    an_valid,   \* analysis: valid_cases
    an_log,     \* analysis: the calls safe_run_analysis made to the application (history)
    an_sra,     \* analysis: how safe_run_analysis ended: "none", "returned", "raised"
    an_save_ok, \* analysis: what ETABSModelBuilder.save_model returned
    an_module_ok, \* analysis: what analysis.run_analysis returned
    an_ret,     \* analysis: what ETABSModelBuilder.run_analysis returned
    cn_config,  \* connector: ATTACH_TO_INSTANCE, REMOTE, SPECIFY_PATH
    cn_my_etabs,  \* connector: self.my_etabs, "None" or "obj"
    cn_sap_model, \* connector: self.sap_model, "None" or "obj"
    cn_last,    \* connector: the last method called, how it ended, the calls it made
    sw_file,    \* switch: the text of config/__init__.py, a sequence of tokens
    sw_written, \* switch: the type the last update_config wrote, "none" if it wrote nothing
    sw_read,    \* switch: what read_current_config returned since, "none" if not called
    sw_before,  \* switch: the text of the file before the last update_config
    cli_exists, \* switch CLI: which of the three configuration files exist
    cli_argv,   \* switch CLI: sys.argv[1], "none" when there is no argument
    cli_pc,     \* switch CLI: where main is
    cli_file0,  \* switch CLI: the text of config/__init__.py when main started
    cli_run,    \* switch CLI: what the run has read, been answered and done
    fn_args,    \* a function of the geometry, results or loads modules: its arguments
    fn_ret      \* ... and what the call returned and did, [fn |-> "none"] before it

crVars == <<cr_call, cr_result>>
flVars == <<fl_pc, fl_members, fl_todo, fl_i, fl_count, fl_failed, fl_tried, fl_bad>>
anVars == <<an_pc, an_entry, an_sap_model, an_cases, an_delete, an_defined, an_k,
            an_valid, an_log, an_sra, an_save_ok, an_module_ok, an_ret>>
cnVars == <<cn_config, cn_my_etabs, cn_sap_model, cn_last>>
swVars == <<sw_file, sw_written, sw_read, sw_before>>
cliVars == <<cli_exists, cli_argv, cli_pc, cli_file0, cli_run>>
fnVars == <<fn_args, fn_ret>>
vars == <<System, proc, comp, crVars, flVars, anVars, cnVars, swVars, cliVars, fnVars>>

\* The variables of the other parts, for the UNCHANGED of each part's actions.
restCheckRet == <<flVars, anVars, cnVars, swVars, cliVars, fnVars>>
restFrameLoads == <<crVars, anVars, cnVars, swVars, cliVars, fnVars>>
restAnalysis == <<crVars, flVars, cnVars, swVars, cliVars, fnVars>>
restConnector == <<crVars, flVars, anVars, swVars, cliVars, fnVars>>
restSwitch == <<crVars, flVars, anVars, cnVars, cliVars, fnVars>>
restCli == <<crVars, flVars, anVars, cnVars, fnVars>>
restFn == <<crVars, flVars, anVars, cnVars, swVars, cliVars>>

\* The values a part's variables keep while another part is exercised.
Pending == [done |-> FALSE, exit |-> FALSE, code |-> 0]

IdleCheckRet ==
    /\ cr_call = [ret_val |-> [tuple |-> FALSE, int |-> 0, items |-> << >>],
                  func_name |-> << >>, ok_codes |-> {}]
    /\ cr_result = Pending

IdleFrameLoads ==
    /\ fl_pc = "idle" /\ fl_members = [areas |-> << >>, beams |-> << >>, columns |-> << >>]
    /\ fl_todo = << >> /\ fl_i = 0
    /\ fl_count = 0 /\ fl_failed = << >> /\ fl_tried = {} /\ fl_bad = {}

NoRun ==
    [preflight |-> "none", target |-> "none", ret |-> "none", choice |-> "none",
     current |-> "none", confirm |-> "none", wrote |-> FALSE]

NotCalled == [fn |-> "none"]

IdleFn == fn_args = << >> /\ fn_ret = NotCalled

IdleCli ==
    /\ cli_exists = [init |-> TRUE, shear_wall |-> TRUE, frame |-> TRUE]
    /\ cli_argv = "none" /\ cli_pc = "idle" /\ cli_file0 = << >> /\ cli_run = NoRun

IdleSwitchFile ==
    sw_file = << >> /\ sw_written = "none" /\ sw_read = "none" /\ sw_before = << >>

IdleSwitch == IdleSwitchFile /\ IdleCli /\ IdleFn

NoCall == [method |-> "none", ret |-> "none", calls |-> << >>]

IdleConnector ==
    /\ cn_config = [attach |-> FALSE, remote |-> FALSE, specify_path |-> FALSE]
    /\ cn_my_etabs = "None" /\ cn_sap_model = "None" /\ cn_last = NoCall

IdleAnalysis ==
    /\ an_pc = "idle" /\ an_entry = "none" /\ an_sap_model = FALSE
    /\ an_cases = << >> /\ an_delete = FALSE /\ an_defined = {} /\ an_k = 0
    /\ an_valid = << >> /\ an_log = << >> /\ an_sra = "none"
    /\ an_save_ok = "none" /\ an_module_ok = "none" /\ an_ret = "none"

\* Every component but the function under check is idle.
IdleButFn ==
    /\ IdleCheckRet /\ IdleFrameLoads /\ IdleAnalysis /\ IdleConnector
    /\ IdleSwitchFile /\ IdleCli

\* ------------------------------------------------------------------ bounds

\* The status codes the application may return are 0 .. MaxCode.
MaxCode == 3

\* A batch holds at most MaxMembers members of a kind.
MaxMembers == 2

\* The status codes a call of the analysis may return are 0 .. MaxAnCode.
MaxAnCode == 2

\* A direct caller of safe_run_analysis asks for at most MaxCases cases.
MaxCases == 2
MaxLines == 2
MantissaBits == 4
MaxCoord == 13
MaxMesh == 3
MaxPts == 4
MaxGridLines == 4
MaxStories == 2
MaxFailAt == 6
MaxRecords == 3

\* ------------------------------------------------------- utils/helpers.py

\* A call name is a sequence of tokens; `kw in func_name` is a search for a
\* contiguous run of tokens.  Names are cut so that every keyword of the
\* allow-list begins and ends on a token boundary.
Contains(kw, name) ==
    \E i \in 1..(Len(name) - Len(kw) + 1) : SubSeq(name, i, i + Len(kw) - 1) = kw

\* The allow-list of helpers.py:35-46, in the order of the source.
BenignKeywords ==
    { <<"Set", "Number", "Modes">>, <<"Set", "Material">>, <<"Set", "Wall">>,
      <<"Set", "Slab">>, <<"Set", "Rectangle">>, <<"Set", "Case">>,
      <<"Add", "(">>, <<"Add", "By", "Coord">>, <<"Set", "Diaphragm">>,
      <<"Set", "Pier">>, <<"Set", "Spandrel">>, <<"Set", "SelfWTMultiplier">>,
      <<"Set", "Load", "Uniform">>, <<"Set", "Run", "Case", "Flag">>,
      <<"DeselectAllCasesAndCombosForOutput">>,
      <<"Set", "Case", "SelectedForOutput">>, <<"Drift">>,
      <<"Set", "Modifiers">>,
      <<"Results", ".", "Modal", "Period">>,
      <<"Results", ".", "Modal", "ParticipatingMassRatios">>,
      <<"Results", ".", "Story", "Drift", "s">>, <<"Results", ".">>,
      <<"Modal", "Period">>, <<"Modal", "ParticipatingMassRatios">>,
      <<"Story", "Drift", "s">>, <<"Get", "Name", "List">>,
      <<"Refresh", "View">> }

\* What `code` is when ret_val is the empty tuple: the tuple itself, an
\* object equal to no integer and member of no ok_codes.
EmptyTuple == -1

\* A return value: a bare integer (tuple = FALSE, int) or a tuple (items).
IntRet(n) == [tuple |-> FALSE, int |-> n, items |-> << >>]
TupleRet(s) == [tuple |-> TRUE, int |-> 0, items |-> s]

\* helpers.py:30
CodeOf(ret_val) ==
    IF ret_val.tuple /\ Len(ret_val.items) > 0 THEN ret_val.items[1]
    ELSE IF ret_val.tuple THEN EmptyTuple
    ELSE ret_val.int

\* helpers.py:33-47: the benign branch
IsBenign(code, func_name) ==
    code = 1 /\ \E kw \in BenignKeywords : Contains(kw, func_name)

Returned(code) == [exit |-> FALSE, code |-> code]
Exited(code) == [exit |-> TRUE, code |-> code]

\* Mutants of check_ret: one that has lost the allow-list, one that has lost
\* the fatal branch, one that has lost the System guard.
check_ret_no_allow_list(sys, ret_val, func_name, ok_codes) ==
    LET code == CodeOf(ret_val) IN
    IF sys = "None" THEN Exited(code)
    ELSE IF code \notin ok_codes THEN Exited(code)
    ELSE Returned(code)

check_ret_never_exits(sys, ret_val, func_name, ok_codes) ==
    LET code == CodeOf(ret_val) IN
    IF sys = "None" THEN Exited(code) ELSE Returned(code)

\* helpers.py:13-64.  sys is the System handle the function reads.
check_ret(sys, ret_val, func_name, ok_codes) ==
    LET code == CodeOf(ret_val) IN
    IF sys = "None" THEN Exited(code)
    ELSE IF IsBenign(code, func_name) THEN Returned(code)
    ELSE IF code \notin ok_codes THEN Exited(code)
    ELSE Returned(code)

\* ----------------------------------------------- check_ret on its own

\* Call names taken from the call sites of the repository.
N_SetWall == <<"Set", "Wall">>
N_AddByCoord == <<"Add", "By", "Coord", "(", "W1", ")">>
N_SetDiaphragm == <<"Set", "Diaphragm", "(", "SRD", ")">>
N_SetPier == <<"Set", "Pier", "(", "P1", ")">>
N_SetLoadUniform == <<"Set", "Load", "Uniform", " ", "DEAD", " ", "on", " ", "SLAB_1">>
N_ResultsStoryDrifts == <<"Results", ".", "Story", "Drift", "s">>
N_RefreshView == <<"Refresh", "View">>
N_SetLoadDistributed == <<"Set", "Load", "Distributed", " ", "DEAD", " ", "on", " ", "B1">>
N_SetLoadPoint == <<"Set", "Load", "Point", " ", "DEAD", " ", "on", " ", "C1">>
N_DeleteResults == <<"Delete", "Results">>
N_ApplicationStart == <<"my_etabs", ".", "Application", "Start">>
N_InitializeNewModel == <<"sap_model", ".", "Initialize", "New", "Model">>
N_NewGridOnly == <<"file_obj", ".", "New", "Grid", "Only">>
N_SetModelIsLocked == <<"Set", "Model", "IsLocked", "(", "False", ")", " ", "before", " ", "analysis">>

FuncNames ==
    { N_SetWall, N_AddByCoord, N_SetDiaphragm, N_SetPier, N_SetLoadUniform,
      N_ResultsStoryDrifts, N_RefreshView, N_SetLoadDistributed, N_SetLoadPoint,
      N_DeleteResults, N_ApplicationStart, N_InitializeNewModel, N_NewGridOnly,
      N_SetModelIsLocked }

Codes == 0..MaxCode

\* The ok_codes the callers of the repository pass, and two more.
OkCodeSets == { {0}, {0, 1}, {0, 2}, {} }

RetVals ==
    { IntRet(c) : c \in Codes } \cup { TupleRet(<<c, 0>>) : c \in Codes }
        \cup { TupleRet(<< >>) }

\* The module has just been imported: utils/dotnet.py:13 sets System = None.
InitCheckRet ==
    /\ comp = "check_ret"
    /\ System = "None"
    /\ proc = "running"
    /\ cr_call \in [ret_val : RetVals, func_name : FuncNames, ok_codes : OkCodeSets]
    /\ cr_result = Pending
    /\ IdleFrameLoads /\ IdleAnalysis /\ IdleConnector /\ IdleSwitch

\* One call of check_ret with the drawn arguments.
CallCheckRet ==
    /\ comp = "check_ret"
    /\ proc = "running"
    /\ ~cr_result.done
    /\ LET r == check_ret(System, cr_call.ret_val, cr_call.func_name, cr_call.ok_codes) IN
        /\ cr_result' = [done |-> TRUE, exit |-> r.exit, code |-> r.code]
        /\ proc' = IF r.exit THEN "exited" ELSE "running"
    /\ UNCHANGED <<System, comp, cr_call, restCheckRet>>

\* utils/dotnet.py:17-72: the loader sets System (line 37) unless an import
\* before that line fails; it reports failure by its return value only.
load_dotnet_etabs_api ==
    /\ proc = "running"
    /\ System = "None"
    /\ \E imported \in BOOLEAN : System' = IF imported THEN "loaded" ELSE "None"
    /\ UNCHANGED <<proc, comp, crVars, restCheckRet>>

NextCheckRet == load_dotnet_etabs_api \/ CallCheckRet

SpecCheckRet == InitCheckRet /\ [][NextCheckRet]_vars

\* --- the claims about check_ret

cr_code == CodeOf(cr_call.ret_val)

\* The call's arguments are in the domain the claims speak of: a bare
\* integer, or a tuple whose first element is the integer status.
cr_in_domain == ~cr_call.ret_val.tuple \/ Len(cr_call.ret_val.items) > 0

\* The name carries one of the allow-listed substrings.
cr_name_listed == \E kw \in BenignKeywords : Contains(kw, cr_call.func_name)

\* What C1 asks of a finished call, whatever the System handle is.
cr_gate_holds ==
    /\ cr_code \in cr_call.ok_codes =>
           ~cr_result.exit /\ cr_result.code = cr_code /\ proc = "running"
    /\ (cr_code \notin cr_call.ok_codes /\ ~(cr_code = 1 /\ cr_name_listed)) =>
           cr_result.exit /\ proc = "exited"

\* C1 as stated: for every return value and every call name, check_ret
\* returns the code without terminating when the code is in ok_codes, and
\* terminates the process when it is not and the name does not allow-list it.
C1_AsStated == (cr_result.done /\ cr_in_domain) => cr_gate_holds

\* C1 amended: the same once the System handle is loaded; while it is None
\* check_ret terminates the process whatever the code.
C1_GateWhenLoaded ==
    (cr_result.done /\ cr_in_domain) =>
        /\ System = "loaded" => cr_gate_holds
        /\ System = "None" => cr_result.exit /\ proc = "exited"

\* The spec's example: 'SetWall' returning 2 terminates the run.
C1_Witness ==
    /\ cr_result.done /\ System = "loaded"
    /\ cr_call.func_name = N_SetWall /\ cr_call.ret_val = TupleRet(<<2, 0>>)
    /\ cr_call.ok_codes = {0, 1}
    /\ cr_result.exit /\ proc = "exited"

\* What C2 asks of a finished call: code 1 under an allow-listed name is
\* returned and the process goes on.
cr_benign_holds ==
    (cr_code = 1 /\ cr_name_listed) =>
        ~cr_result.exit /\ cr_result.code = 1 /\ proc = "running"

\* C2 as stated: for every allow-listed call name a status of 1 is accepted,
\* check_ret returns 1 and the process continues, whatever ok_codes is.
C2_AsStated == (cr_result.done /\ cr_in_domain) => cr_benign_holds

\* C2 amended: the same once the System handle is loaded.
C2_BenignWhenLoaded ==
    (cr_result.done /\ cr_in_domain /\ System = "loaded") => cr_benign_holds

\* 'SetWall' returning 1 under the default ok_codes (0,) is accepted.
C2_Witness ==
    /\ cr_result.done /\ System = "loaded"
    /\ cr_call.func_name = N_SetWall /\ cr_call.ret_val = IntRet(1)
    /\ cr_call.ok_codes = {0}
    /\ ~cr_result.exit /\ cr_result.code = 1 /\ proc = "running"


\* --------------------------------------------------- loads/frame_loads.py

\* config/config_frame.py: the frame configuration's load settings.
ENABLE_FRAME_BEAMS == TRUE
ENABLE_FRAME_COLUMNS == TRUE
BEAM_DEAD_LOAD == 10
BEAM_LIVE_LOAD == 5
COLUMN_AXIAL_LOAD == 50
DEFAULT_DEAD_SUPER_SLAB == 2
DEFAULT_LIVE_LOAD_SLAB == 2

\* What a call into the application does: it raises, or returns a code.
Raises == [raised |-> TRUE, code |-> 0]
Returns(c) == [raised |-> FALSE, code |-> c]
ApiOutcomes == {Raises} \cup { Returns(c) : c \in Codes }

\* Member names: a prefix and a number; name.startswith("SLAB_") reads the prefix.
MemberName(prefix, k) == <<prefix, k>>
NameList(prefix, n) == [k \in 1..n |-> MemberName(prefix, k)]

\* The call names of frame_loads.py:49,57,107,162,169.
LoadCallName(api, pattern, member) ==
    api \o <<" ", pattern, " ", "on", " ", member>>
N_SetLoadDistributedApi == <<"Set", "Load", "Distributed">>
N_SetLoadPointApi == <<"Set", "Load", "Point">>
N_SetLoadUniformApi == <<"Set", "Load", "Uniform">>
N_GetNameListSlabs ==
    <<"AreaObj", ".", "Get", "Name", "List", " ", "(", "for", " ", "frame", " ", "slab", " ", "loads", ")">>

\* One load-assignment call followed by check_ret(ret, name, (0, 1)) inside
\* the member's try block: "failed" when the call raised (the except branch
\* takes over), "exit" when check_ret ended the process, else "ok".
LoadCall(sys, o, func_name) ==
    IF o.raised THEN "failed"
    ELSE IF check_ret(sys, IntRet(o.code), func_name, {0, 1}).exit THEN "exit"
    ELSE "ok"

\* The try block of one member: the DEAD call if its load is > 0, then the
\* LIVE call if its load is > 0 (frame_loads.py:42-63, 156-174).
TwoCallBody(sys, api, member, dead, live, oDead, oLive) ==
    LET r1 == IF dead > 0
              THEN LoadCall(sys, oDead, LoadCallName(api, "DEAD", member)) ELSE "ok"
    IN  IF r1 # "ok" THEN r1
        ELSE IF live > 0
             THEN LoadCall(sys, oLive, LoadCallName(api, "LIVE", member)) ELSE "ok"

\* The try block of one column (frame_loads.py:102-111).
ColumnBody(sys, member, o) ==
    LoadCall(sys, o, LoadCallName(N_SetLoadPointApi, "DEAD", member))

\* The effect of one loop iteration whose try block ended with r.
fl_Iterate(member, r) ==
    /\ fl_tried' = fl_tried \cup {member}
    /\ fl_bad' = IF r = "ok" THEN fl_bad ELSE fl_bad \cup {member}
    /\ fl_count' = IF r = "ok" THEN fl_count + 1 ELSE fl_count
    /\ fl_failed' = IF r = "failed" THEN Append(fl_failed, member) ELSE fl_failed
    /\ proc' = IF r = "exit" THEN "exited" ELSE proc
    /\ fl_i' = fl_i + 1

\* assign_frame_slab_loads_fixed up to its loop (frame_loads.py:126-151):
\* GetNameList, its check_ret under the default ok_codes, the SLAB_ filter.
\* A raise of GetNameList leaves the function; assign_all_frame_loads_fixed
\* catches it (frame_loads.py:196-199) and goes on to the beams.
fl_SlabsStart ==
    /\ comp = "loads" /\ proc = "running" /\ fl_pc = "slabs"
    /\ \E o \in ApiOutcomes, arrayFilled \in BOOLEAN :
        LET gate == check_ret(System, IntRet(o.code), N_GetNameListSlabs, {0})
            all_area_names == IF arrayFilled THEN fl_members.areas ELSE << >>
            slabs_to_load == SelectSeq(all_area_names, LAMBDA n : n[1] = "SLAB_")
        IN  IF o.raised
            THEN /\ fl_pc' = "beams" /\ UNCHANGED <<proc, fl_todo>>
            ELSE IF gate.exit
            THEN /\ proc' = "exited" /\ UNCHANGED <<fl_pc, fl_todo>>
            ELSE IF slabs_to_load = << >>
            THEN /\ fl_pc' = "beams" /\ UNCHANGED <<proc, fl_todo>>
            ELSE /\ fl_pc' = "slabs_loop" /\ fl_todo' = slabs_to_load /\ UNCHANGED proc
    /\ fl_i' = 1 /\ fl_count' = 0 /\ fl_failed' = << >>
    /\ UNCHANGED <<System, comp, fl_members, fl_tried, fl_bad, restFrameLoads>>

\* One iteration of the slab loop (frame_loads.py:155-174).
fl_SlabsMember ==
    /\ comp = "loads" /\ proc = "running" /\ fl_pc = "slabs_loop"
    /\ fl_i <= Len(fl_todo)
    /\ \E oDead \in ApiOutcomes, oLive \in ApiOutcomes :
        fl_Iterate(fl_todo[fl_i],
                   TwoCallBody(System, N_SetLoadUniformApi, fl_todo[fl_i],
                               DEFAULT_DEAD_SUPER_SLAB, DEFAULT_LIVE_LOAD_SLAB, oDead, oLive))
    /\ UNCHANGED <<System, comp, fl_pc, fl_members, fl_todo, restFrameLoads>>

\* The slab loop is over: the tally is printed (frame_loads.py:176-181).
fl_SlabsEnd ==
    /\ comp = "loads" /\ proc = "running" /\ fl_pc = "slabs_loop"
    /\ fl_i > Len(fl_todo)
    /\ fl_pc' = "beams"
    /\ UNCHANGED <<System, proc, comp, fl_members, fl_todo, fl_i, fl_count, fl_failed,
                   fl_tried, fl_bad, restFrameLoads>>

\* assign_beam_loads_fixed up to its loop (frame_loads.py:24-37).
fl_BeamsStart ==
    /\ comp = "loads" /\ proc = "running" /\ fl_pc = "beams"
    /\ IF ~ENABLE_FRAME_BEAMS \/ fl_members.beams = << >>
       THEN fl_pc' = "columns" /\ UNCHANGED fl_todo
       ELSE fl_pc' = "beams_loop" /\ fl_todo' = fl_members.beams
    /\ fl_i' = 1 /\ fl_count' = 0 /\ fl_failed' = << >>
    /\ UNCHANGED <<System, proc, comp, fl_members, fl_tried, fl_bad, restFrameLoads>>

\* One iteration of the beam loop (frame_loads.py:41-63).
fl_BeamsMember ==
    /\ comp = "loads" /\ proc = "running" /\ fl_pc = "beams_loop"
    /\ fl_i <= Len(fl_todo)
    /\ \E oDead \in ApiOutcomes, oLive \in ApiOutcomes :
        fl_Iterate(fl_todo[fl_i],
                   TwoCallBody(System, N_SetLoadDistributedApi, fl_todo[fl_i],
                               BEAM_DEAD_LOAD, BEAM_LIVE_LOAD, oDead, oLive))
    /\ UNCHANGED <<System, comp, fl_pc, fl_members, fl_todo, restFrameLoads>>

\* The beam loop is over (frame_loads.py:65-70).
fl_BeamsEnd ==
    /\ comp = "loads" /\ proc = "running" /\ fl_pc = "beams_loop"
    /\ fl_i > Len(fl_todo)
    /\ fl_pc' = "columns"
    /\ UNCHANGED <<System, proc, comp, fl_members, fl_todo, fl_i, fl_count, fl_failed,
                   fl_tried, fl_bad, restFrameLoads>>

\* assign_column_loads_fixed up to its loop (frame_loads.py:81-97).
fl_ColumnsStart ==
    /\ comp = "loads" /\ proc = "running" /\ fl_pc = "columns"
    /\ IF ~ENABLE_FRAME_COLUMNS \/ fl_members.columns = << >> \/ COLUMN_AXIAL_LOAD = 0
       THEN fl_pc' = "done" /\ UNCHANGED fl_todo
       ELSE fl_pc' = "columns_loop" /\ fl_todo' = fl_members.columns
    /\ fl_i' = 1 /\ fl_count' = 0 /\ fl_failed' = << >>
    /\ UNCHANGED <<System, proc, comp, fl_members, fl_tried, fl_bad, restFrameLoads>>

\* One iteration of the column loop (frame_loads.py:101-111).
fl_ColumnsMember ==
    /\ comp = "loads" /\ proc = "running" /\ fl_pc = "columns_loop"
    /\ fl_i <= Len(fl_todo)
    /\ \E o \in ApiOutcomes : fl_Iterate(fl_todo[fl_i], ColumnBody(System, fl_todo[fl_i], o))
    /\ UNCHANGED <<System, comp, fl_pc, fl_members, fl_todo, restFrameLoads>>

\* The column loop is over (frame_loads.py:113-116).
fl_ColumnsEnd ==
    /\ comp = "loads" /\ proc = "running" /\ fl_pc = "columns_loop"
    /\ fl_i > Len(fl_todo)
    /\ fl_pc' = "done"
    /\ UNCHANGED <<System, proc, comp, fl_members, fl_todo, fl_i, fl_count, fl_failed,
                   fl_tried, fl_bad, restFrameLoads>>

\* assign_all_frame_loads_fixed is entered with a model that holds up to
\* MaxMembers objects of each kind; the runtime is loaded (a SapModel exists).
InitFrameLoads ==
    /\ comp = "loads"
    /\ System = "loaded"
    /\ proc = "running"
    /\ IdleCheckRet /\ IdleAnalysis /\ IdleConnector /\ IdleSwitch
    /\ fl_pc = "slabs"
    /\ \E ns \in 0..MaxMembers, nw \in 0..1, nb \in 0..MaxMembers, nc \in 0..MaxMembers :
        fl_members = [areas |-> NameList("W", nw) \o NameList("SLAB_", ns),
                      beams |-> NameList("BEAM_", nb),
                      columns |-> NameList("COL_", nc)]
    /\ fl_todo = << >> /\ fl_i = 0 /\ fl_count = 0 /\ fl_failed = << >>
    /\ fl_tried = {} /\ fl_bad = {}

NextFrameLoads ==
    \/ fl_SlabsStart \/ fl_SlabsMember \/ fl_SlabsEnd
    \/ fl_BeamsStart \/ fl_BeamsMember \/ fl_BeamsEnd
    \/ fl_ColumnsStart \/ fl_ColumnsMember \/ fl_ColumnsEnd

SpecFrameLoads == InitFrameLoads /\ [][NextFrameLoads]_vars

\* --- the claim about the batch load assignments

\* All the members the three batches are to load.
fl_all_members ==
    { fl_members.beams[k] : k \in 1..Len(fl_members.beams) }
        \cup { fl_members.columns[k] : k \in 1..Len(fl_members.columns) }
        \cup { fl_members.areas[k] : k \in { j \in 1..Len(fl_members.areas) :
                                               fl_members.areas[j][1] = "SLAB_" } }

\* C3 as stated: a failure of one member's call, by exception or by a code
\* outside the accepted set, is logged and counted for that member only;
\* the run is not aborted and the remaining members are still attempted.
\* (A batch is under way while fl_pc is one of the three loops.)
C3_AsStated ==
    (comp = "loads" /\ fl_pc \in {"slabs_loop", "beams_loop", "columns_loop"}) =>
        /\ proc = "running"
        /\ \A k \in 1..(fl_i - 1) :
               fl_todo[k] \in fl_bad =>
                   \E j \in 1..Len(fl_failed) : fl_failed[j] = fl_todo[k]

\* The part of C3 the code does keep: a call that raises is logged and
\* counted for its member, and the batch goes on to the next member.
C3_RaiseIsContained ==
    (comp = "loads" /\ proc = "running"
        /\ fl_pc \in {"slabs_loop", "beams_loop", "columns_loop"}) =>
        /\ fl_count + Len(fl_failed) = fl_i - 1
        /\ \A k \in 1..(fl_i - 1) :
               fl_todo[k] \in fl_bad <=>
                   \E j \in 1..Len(fl_failed) : fl_failed[j] = fl_todo[k]


\* --------- analysis/analysis_runner.py and ETABSModelBuilder.run_analysis

\* config/config_frame.py:195 and :174
DELETE_OLD_RESULTS == TRUE
MODAL_CASE_NAME == "MODAL_RS"

\* analysis_runner.py:105: the cases wait_and_run_analysis asks for.
WaitLoadCases == <<"DEAD", "LIVE", MODAL_CASE_NAME, "RS-X", "RS-Y">>

CaseNames == { WaitLoadCases[k] : k \in 1..Len(WaitLoadCases) }

\* The outcomes of a call the analysis makes: it raises, or returns 0..MaxAnCode.
AnOutcomes == {Raises} \cup { Returns(c) : c \in 0..MaxAnCode }

\* The lists a direct caller of safe_run_analysis may pass: up to MaxCases names.
RECURSIVE SeqsUpTo(_, _)
SeqsUpTo(S, n) ==
    IF n = 0 THEN { << >> }
    ELSE LET shorter == SeqsUpTo(S, n - 1)
         IN  shorter \cup { Append(q, x) : q \in { r \in shorter : Len(r) = n - 1 }, x \in S }

\* What the model's load-case name list may hold when the builder runs.
BuilderDefined == { {}, CaseNames, CaseNames \ {"RS-Y"}, {"DEAD", "LIVE"} }

Call(api, arg, o) == [api |-> api, arg |-> arg, out |-> o]

an_Logged(api, arg, o) == an_log' = Append(an_log, Call(api, arg, o))

\* An exception leaves safe_run_analysis.
an_Raise == an_sra' = "raised" /\ an_pc' = "sra_end"

\* ETABSModelBuilder.run_analysis, model_builder.py:148-150, 161-163.
an_BuilderEnter ==
    /\ comp = "analysis" /\ proc = "running" /\ an_pc = "builder"
    /\ IF ~an_sap_model
       THEN an_ret' = "False" /\ an_pc' = "done"
       ELSE an_ret' = an_ret /\ an_pc' = "save_model"
    /\ UNCHANGED <<System, proc, comp, an_entry, an_sap_model, an_cases, an_delete,
                   an_defined, an_k, an_valid, an_log, an_sra, an_save_ok, an_module_ok,
                   restAnalysis>>

\* ETABSModelBuilder.save_model, model_builder.py:195-219: "True", "False"
\* (an exception, caught at line 217), or "exit" (check_ret ended the process).
save_model(sys, sap_model, dirMade, oRefresh, oSave) ==
    IF ~sap_model THEN "False"
    ELSE IF ~dirMade THEN "False"
    ELSE IF oRefresh.raised THEN "False"
    ELSE IF check_ret(sys, IntRet(oRefresh.code), N_RefreshView, {0, 1}).exit THEN "exit"
    ELSE IF oSave.raised THEN "False"
    ELSE IF oSave.code # 0 THEN "False"
    ELSE "True"

\* model_builder.py:153: run_analysis calls save_model and drops its result.
an_SaveModel ==
    /\ comp = "analysis" /\ proc = "running" /\ an_pc = "save_model"
    /\ \E dirMade \in BOOLEAN, oRefresh \in AnOutcomes, oSave \in AnOutcomes :
        LET r == save_model(System, an_sap_model, dirMade, oRefresh, oSave) IN
        IF r = "exit"
        THEN proc' = "exited" /\ UNCHANGED <<an_pc, an_save_ok>>
        ELSE proc' = proc /\ an_save_ok' = r /\ an_pc' = "wait"
    /\ UNCHANGED <<System, comp, an_entry, an_sap_model, an_cases, an_delete,
                   an_defined, an_k, an_valid, an_log, an_sra, an_module_ok, an_ret,
                   restAnalysis>>

\* analysis.run_analysis -> wait_and_run_analysis, analysis_runner.py:100-112,
\* 155-158: the fixed case list, the default delete_old_results.
an_WaitEnter ==
    /\ comp = "analysis" /\ proc = "running" /\ an_pc = "wait"
    /\ IF ~an_sap_model
       THEN /\ an_module_ok' = "False" /\ an_pc' = "builder_return"
            /\ UNCHANGED <<an_cases, an_delete>>
       ELSE /\ an_cases' = WaitLoadCases /\ an_delete' = DELETE_OLD_RESULTS
            /\ an_pc' = "safe_run" /\ UNCHANGED an_module_ok
    /\ UNCHANGED <<System, proc, comp, an_entry, an_sap_model, an_defined, an_k,
                   an_valid, an_log, an_sra, an_save_ok, an_ret, restAnalysis>>

\* safe_run_analysis, analysis_runner.py:24-30.
an_SafeRunEnter ==
    /\ comp = "analysis" /\ proc = "running" /\ an_pc = "safe_run"
    /\ IF ~an_sap_model THEN an_Raise ELSE an_pc' = "unlock" /\ UNCHANGED an_sra
    /\ UNCHANGED <<System, proc, comp, an_entry, an_sap_model, an_cases, an_delete,
                   an_defined, an_k, an_valid, an_log, an_save_ok, an_module_ok, an_ret,
                   restAnalysis>>

\* analysis_runner.py:35: SetModelIsLocked(False) under check_ret(.., (0, 1)).
an_Unlock ==
    /\ comp = "analysis" /\ proc = "running" /\ an_pc = "unlock"
    /\ \E o \in AnOutcomes :
        /\ an_Logged("SetModelIsLocked", "False", o)
        /\ IF o.raised THEN an_Raise /\ UNCHANGED proc
           ELSE IF check_ret(System, IntRet(o.code), N_SetModelIsLocked, {0, 1}).exit
           THEN proc' = "exited" /\ UNCHANGED <<an_pc, an_sra>>
           ELSE an_pc' = "save" /\ UNCHANGED <<proc, an_sra>>
    /\ UNCHANGED <<System, comp, an_entry, an_sap_model, an_cases, an_delete,
                   an_defined, an_k, an_valid, an_save_ok, an_module_ok, an_ret,
                   restAnalysis>>

\* analysis_runner.py:38-40: File.Save; any nonzero return raises.
an_Save ==
    /\ comp = "analysis" /\ proc = "running" /\ an_pc = "save"
    /\ \E o \in AnOutcomes :
        /\ an_Logged("Save", "model_path", o)
        /\ IF o.raised \/ o.code # 0 THEN an_Raise
           ELSE an_pc' = "check_list" /\ UNCHANGED an_sra
    /\ UNCHANGED <<System, proc, comp, an_entry, an_sap_model, an_cases, an_delete,
                   an_defined, an_k, an_valid, an_save_ok, an_module_ok, an_ret,
                   restAnalysis>>

\* analysis_runner.py:43-44: an empty request raises.
an_CheckList ==
    /\ comp = "analysis" /\ proc = "running" /\ an_pc = "check_list"
    /\ IF an_cases = << >> THEN an_Raise ELSE an_pc' = "get_names" /\ UNCHANGED an_sra
    /\ UNCHANGED <<System, proc, comp, an_entry, an_sap_model, an_cases, an_delete,
                   an_defined, an_k, an_valid, an_log, an_save_ok, an_module_ok, an_ret,
                   restAnalysis>>

\* analysis_runner.py:50: the list is kept only when the call returned 0 with
\* a positive count.
DefinedCases(o, names) == IF o.code = 0 /\ Cardinality(names) > 0 THEN names ELSE {}

\* analysis_runner.py:47-56: LoadCases.GetNameList; no check_ret here.
an_GetNames ==
    /\ comp = "analysis" /\ proc = "running" /\ an_pc = "get_names"
    /\ \E o \in AnOutcomes,
          names \in IF an_entry = "builder" THEN BuilderDefined ELSE SUBSET CaseNames :
        /\ an_Logged("GetNameList", "LoadCases", o)
        /\ IF o.raised THEN an_Raise /\ UNCHANGED <<an_defined, an_k, an_valid>>
           ELSE /\ an_defined' = DefinedCases(o, names)
                /\ an_k' = 1 /\ an_valid' = << >>
                /\ an_pc' = "flag" /\ UNCHANGED an_sra
    /\ UNCHANGED <<System, proc, comp, an_entry, an_sap_model, an_cases, an_delete,
                   an_save_ok, an_module_ok, an_ret, restAnalysis>>

\* analysis_runner.py:58: whether the loop skips the case.
SkipsCase(defined_cases, case) == defined_cases # {} /\ case \notin defined_cases

\* analysis_runner.py:57-67: one iteration of the loop over the request.
an_FlagCase ==
    /\ comp = "analysis" /\ proc = "running" /\ an_pc = "flag"
    /\ an_k <= Len(an_cases)
    /\ LET case == an_cases[an_k] IN
       IF SkipsCase(an_defined, case)
       THEN an_k' = an_k + 1 /\ UNCHANGED <<an_valid, an_log, an_pc, an_sra>>
       ELSE \E o \in AnOutcomes :
            /\ an_Logged("SetRunCaseFlag", case, o)
            /\ IF o.raised THEN an_Raise /\ UNCHANGED <<an_k, an_valid>>
               ELSE /\ an_k' = an_k + 1
                    /\ an_valid' = IF o.code # 0 THEN an_valid ELSE Append(an_valid, case)
                    /\ UNCHANGED <<an_pc, an_sra>>
    /\ UNCHANGED <<System, proc, comp, an_entry, an_sap_model, an_cases, an_delete,
                   an_defined, an_save_ok, an_module_ok, an_ret, restAnalysis>>

\* Mutant: the check for a valid case is gone.
an_Validate_skipped ==
    /\ comp = "analysis" /\ proc = "running" /\ an_pc = "flag"
    /\ an_k > Len(an_cases)
    /\ an_pc' = "delete"
    /\ UNCHANGED <<System, proc, comp, an_entry, an_sap_model, an_cases, an_delete,
                   an_defined, an_k, an_valid, an_log, an_sra, an_save_ok, an_module_ok,
                   an_ret, restAnalysis>>

\* analysis_runner.py:69-70: no valid case raises.
an_Validate ==
    /\ comp = "analysis" /\ proc = "running" /\ an_pc = "flag"
    /\ an_k > Len(an_cases)
    /\ IF an_valid = << >> THEN an_Raise ELSE an_pc' = "delete" /\ UNCHANGED an_sra
    /\ UNCHANGED <<System, proc, comp, an_entry, an_sap_model, an_cases, an_delete,
                   an_defined, an_k, an_valid, an_log, an_save_ok, an_module_ok, an_ret,
                   restAnalysis>>

\* analysis_runner.py:73-78: DeleteResults under check_ret(.., (0, 1)) in a
\* try whose handler catches Exception: a raise of the call is logged, a
\* sys.exit of check_ret is not caught.
an_Delete ==
    /\ comp = "analysis" /\ proc = "running" /\ an_pc = "delete"
    /\ IF ~an_delete
       THEN an_pc' = "run" /\ UNCHANGED <<proc, an_log>>
       ELSE \E o \in AnOutcomes :
            /\ an_Logged("DeleteResults", "", o)
            /\ IF o.raised THEN an_pc' = "run" /\ UNCHANGED proc
               ELSE IF check_ret(System, IntRet(o.code), N_DeleteResults, {0, 1}).exit
               THEN proc' = "exited" /\ UNCHANGED an_pc
               ELSE an_pc' = "run" /\ UNCHANGED proc
    /\ UNCHANGED <<System, comp, an_entry, an_sap_model, an_cases, an_delete,
                   an_defined, an_k, an_valid, an_sra, an_save_ok, an_module_ok, an_ret,
                   restAnalysis>>

\* analysis_runner.py:84-88: RunAnalysis; a nonzero return raises.
an_Run ==
    /\ comp = "analysis" /\ proc = "running" /\ an_pc = "run"
    /\ \E o \in AnOutcomes :
        /\ an_Logged("RunAnalysis", "", o)
        /\ IF o.raised \/ o.code # 0 THEN an_Raise
           ELSE an_sra' = "returned" /\ an_pc' = "sra_end"
    /\ UNCHANGED <<System, proc, comp, an_entry, an_sap_model, an_cases, an_delete,
                   an_defined, an_k, an_valid, an_save_ok, an_module_ok, an_ret,
                   restAnalysis>>

\* safe_run_analysis is left.  To a direct caller that is the end; under the
\* builder wait_and_run_analysis turns it into a boolean (analysis_runner.py:
\* 111-117) that run_analysis passes on (analysis_runner.py:158-170).
an_SafeRunEnd ==
    /\ comp = "analysis" /\ proc = "running" /\ an_pc = "sra_end"
    /\ IF an_entry = "builder"
       THEN /\ an_module_ok' = IF an_sra = "returned" THEN "True" ELSE "False"
            /\ an_pc' = "builder_return"
       ELSE an_pc' = "done" /\ UNCHANGED an_module_ok
    /\ UNCHANGED <<System, proc, comp, an_entry, an_sap_model, an_cases, an_delete,
                   an_defined, an_k, an_valid, an_log, an_sra, an_save_ok, an_ret,
                   restAnalysis>>

\* What ETABSModelBuilder.run_analysis returns once both calls came back
\* without an exception (model_builder.py:153-159): their results are dropped.
BuilderResult(save_ok, module_ok) == "True"

\* model_builder.py:156-159.
an_BuilderReturn ==
    /\ comp = "analysis" /\ proc = "running" /\ an_pc = "builder_return"
    /\ an_ret' = BuilderResult(an_save_ok, an_module_ok)
    /\ an_pc' = "done"
    /\ UNCHANGED <<System, proc, comp, an_entry, an_sap_model, an_cases, an_delete,
                   an_defined, an_k, an_valid, an_log, an_sra, an_save_ok, an_module_ok,
                   restAnalysis>>

\* Either ETABSModelBuilder.run_analysis is called (with or without a model
\* handle), or safe_run_analysis is called directly with a request of up to
\* MaxCases cases and either value of delete_old_results.
InitAnalysis ==
    /\ comp = "analysis"
    /\ System = "loaded"
    /\ proc = "running"
    /\ IdleCheckRet /\ IdleFrameLoads /\ IdleConnector /\ IdleSwitch
    /\ an_sap_model \in BOOLEAN
    /\ \/ /\ an_entry = "builder" /\ an_pc = "builder"
          /\ an_cases = << >> /\ an_delete = FALSE
       \/ /\ an_entry = "safe_run_analysis" /\ an_pc = "safe_run"
          /\ an_cases \in SeqsUpTo(CaseNames, MaxCases)
          /\ an_delete \in BOOLEAN
    /\ an_defined = {} /\ an_k = 0 /\ an_valid = << >> /\ an_log = << >>
    /\ an_sra = "none" /\ an_save_ok = "none" /\ an_module_ok = "none" /\ an_ret = "none"

NextAnalysis ==
    \/ an_BuilderEnter \/ an_SaveModel \/ an_WaitEnter \/ an_SafeRunEnter
    \/ an_Unlock \/ an_Save \/ an_CheckList \/ an_GetNames \/ an_FlagCase
    \/ an_Validate \/ an_Delete \/ an_Run \/ an_SafeRunEnd \/ an_BuilderReturn

SpecAnalysis == InitAnalysis /\ [][NextAnalysis]_vars


\* --- the claims about the analysis

an_Idx(api) == { i \in 1..Len(an_log) : an_log[i].api = api }
an_RunIdx == an_Idx("RunAnalysis")
an_Ok(i, ok_codes) == ~an_log[i].out.raised /\ an_log[i].out.code \in ok_codes

\* The save of safe_run_analysis failed: it raised or returned nonzero.
an_SaveFailed == \E i \in an_Idx("Save") : ~an_Ok(i, {0})

\* C4: RunAnalysis is invoked at most once, and only after, in this order,
\* the unlock, a save that returned 0, and (the request being non-empty) a
\* SetRunCaseFlag of a requested case that returned 0; and when the save
\* failed, the request is empty or no case is valid, safe_run_analysis ends by
\* raising and RunAnalysis is never invoked.
C4_SolverOnlyAfterPreparation ==
    comp = "analysis" =>
        /\ Cardinality(an_RunIdx) <= 1
        /\ \A r \in an_RunIdx :
            /\ an_cases # << >>
            /\ an_valid # << >>
            /\ \E u \in an_Idx("SetModelIsLocked"), sv \in an_Idx("Save"),
                  f \in an_Idx("SetRunCaseFlag") :
                /\ u < sv /\ sv < f /\ f < r
                /\ an_Ok(u, {0, 1}) /\ an_Ok(sv, {0}) /\ an_Ok(f, {0})
                /\ \E k \in 1..Len(an_cases) : an_cases[k] = an_log[f].arg
                /\ \E k \in 1..Len(an_valid) : an_valid[k] = an_log[f].arg
        /\ (an_sra # "none" /\ (an_SaveFailed \/ an_cases = << >> \/ an_valid = << >>)) =>
               an_sra = "raised" /\ an_RunIdx = {}

\* The solver ran and returned 0 after a case had been flagged.
C4_Witness ==
    /\ comp = "analysis" /\ an_sra = "returned"
    /\ \E r \in an_RunIdx : an_Ok(r, {0})
    /\ Len(an_valid) >= 1

\* The delete step was taken and failed: the call raised or returned nonzero.
an_DeleteFailed == \E i \in an_Idx("DeleteResults") : ~an_Ok(i, {0})

\* C5 as stated: when deletion of prior results is enabled, a failure of the
\* delete step, whatever DeleteResults returns or raises, is non-fatal and
\* safe_run_analysis still goes on to invoke the solver.
C5_AsStated ==
    (comp = "analysis" /\ an_DeleteFailed) =>
        /\ proc = "running"
        /\ an_sra # "none" => an_RunIdx # {}

\* C6 as stated: ETABSModelBuilder.run_analysis returns True only if the
\* model save succeeded and the analysis module reported success, and False
\* whenever the save fails or the analysis module reports failure.
C6_AsStated ==
    (comp = "analysis" /\ an_entry = "builder" /\ an_pc = "done") =>
        (an_ret = "True" <=> (an_save_ok = "True" /\ an_module_ok = "True"))

\* C21 as stated: a requested case that is not among the cases defined in
\* the model is skipped and SetRunCaseFlag is never called for it, whatever
\* the reading of the defined cases gave, an empty list included.  (When
\* GetNameList returned 0, an_defined is the list the model holds.)
C21_AsStated ==
    (comp = "analysis" /\ \E g \in an_Idx("GetNameList") : an_Ok(g, {0})) =>
        \A f \in an_Idx("SetRunCaseFlag") : an_log[f].arg \in an_defined

\* What the code does keep: when the list read is not empty, only cases of
\* the list are flagged.
C21_SkipsWhenListNotEmpty ==
    (comp = "analysis" /\ an_defined # {}) =>
        \A f \in an_Idx("SetRunCaseFlag") : an_log[f].arg \in an_defined


\* ------------------------------------------------- core/api_connector.py

\* What acquiring the application object does: it returns the object, or
\* raises COMException, or raises another Exception.
AcquireOutcomes == {"obj", "COMException", "Exception"}

\* api_connector.py:56 and :76-79: the helper method the flags select.
AttachApi(cfg) == IF cfg.remote THEN "GetObjectHost" ELSE "GetObject"
CreateApi(cfg) ==
    IF cfg.remote /\ cfg.specify_path THEN "CreateObjectHost"
    ELSE IF cfg.specify_path THEN "CreateObject"
    ELSE IF cfg.remote THEN "CreateObjectProgIDHost"
    ELSE "CreateObjectProgID"

Method(name, ret, calls) == [method |-> name, ret |-> ret, calls |-> calls]

\* _attach_to_existing_instance, api_connector.py:51-69: what it sets
\* my_etabs to and how it ends.
attach_to_existing_instance(cfg, my_etabs, acq) ==
    IF acq = "obj"
    THEN [my_etabs |-> "obj", last |-> Method("connect", "True", <<AttachApi(cfg)>>)]
    ELSE [my_etabs |-> my_etabs, last |-> Method("connect", "False", <<AttachApi(cfg)>>)]

\* _create_new_instance, api_connector.py:71-97.  ApplicationStart is called
\* outside the try: its exception leaves connect ("raised"), and a nonzero
\* status ends the process in check_ret ("exit").
create_new_instance(sys, cfg, my_etabs, acq, oStart) ==
    IF acq # "obj"
    THEN [my_etabs |-> my_etabs, last |-> Method("connect", "False", <<CreateApi(cfg)>>)]
    ELSE [my_etabs |-> "obj",
          last |-> Method("connect",
                          IF oStart.raised THEN "raised"
                          ELSE IF check_ret(sys, IntRet(oStart.code), N_ApplicationStart, {0}).exit
                          THEN "exit"
                          ELSE "True",
                          <<CreateApi(cfg), "ApplicationStart">>)]

\* ETABSConnector.connect, api_connector.py:35-49.
connect ==
    /\ comp = "connector" /\ proc = "running"
    /\ \E acq \in AcquireOutcomes, oStart \in ApiOutcomes :
        LET r == IF cn_config.attach
                 THEN attach_to_existing_instance(cn_config, cn_my_etabs, acq)
                 ELSE create_new_instance(System, cn_config, cn_my_etabs, acq, oStart)
        IN  /\ cn_my_etabs' = r.my_etabs
            /\ cn_last' = r.last
            /\ proc' = IF r.last.ret = "exit" THEN "exited" ELSE proc
    /\ UNCHANGED <<System, comp, cn_config, cn_sap_model, restConnector>>

\* Mutant: initialize_model without its guard on my_etabs.
initialize_model_unguarded(sys, my_etabs, sap_model, sapIsNone, oLock, oInit, oGrid) ==
    IF sapIsNone
    THEN [sap_model |-> "None", last |-> Method("initialize_model", "False", << >>)]
    ELSE [sap_model |-> "obj",
          last |-> Method("initialize_model", "True",
                          <<"SetModelIsLocked", "InitializeNewModel", "NewGridOnly">>)]

\* ETABSConnector.initialize_model, api_connector.py:99-142: what it sets
\* sap_model to, how it ends and the calls it made.  sapIsNone: my_etabs.SapModel
\* is None; oLock, oInit, oGrid: the outcomes of the three calls.
initialize_model(sys, my_etabs, sap_model, sapIsNone, oLock, oInit, oGrid) ==
    IF my_etabs = "None"
    THEN [sap_model |-> sap_model, last |-> Method("initialize_model", "False", << >>)]
    ELSE IF sapIsNone
    THEN [sap_model |-> "None", last |-> Method("initialize_model", "False", << >>)]
    ELSE IF oInit.raised
    THEN [sap_model |-> "obj",
          last |-> Method("initialize_model", "raised",
                          <<"SetModelIsLocked", "InitializeNewModel">>)]
    ELSE IF check_ret(sys, IntRet(oInit.code), N_InitializeNewModel, {0}).exit
    THEN [sap_model |-> "obj",
          last |-> Method("initialize_model", "exit",
                          <<"SetModelIsLocked", "InitializeNewModel">>)]
    ELSE IF oGrid.raised
    THEN [sap_model |-> "obj",
          last |-> Method("initialize_model", "raised",
                          <<"SetModelIsLocked", "InitializeNewModel", "NewGridOnly">>)]
    ELSE IF check_ret(sys, IntRet(oGrid.code), N_NewGridOnly, {0}).exit
    THEN [sap_model |-> "obj",
          last |-> Method("initialize_model", "exit",
                          <<"SetModelIsLocked", "InitializeNewModel", "NewGridOnly">>)]
    ELSE [sap_model |-> "obj",
          last |-> Method("initialize_model", "True",
                          <<"SetModelIsLocked", "InitializeNewModel", "NewGridOnly">>)]

\* A call of ETABSConnector.initialize_model.
InitializeModel ==
    /\ comp = "connector" /\ proc = "running"
    /\ \E sapIsNone \in BOOLEAN, oLock \in ApiOutcomes, oInit \in ApiOutcomes,
          oGrid \in ApiOutcomes :
        LET r == initialize_model(System, cn_my_etabs, cn_sap_model, sapIsNone,
                                  oLock, oInit, oGrid)
        IN  /\ cn_sap_model' = r.sap_model
            /\ cn_last' = r.last
            /\ proc' = IF r.last.ret = "exit" THEN "exited" ELSE proc
    /\ UNCHANGED <<System, comp, cn_config, cn_my_etabs, restConnector>>

\* Mutant: close that shuts the application down in attach mode too.
close_calls_any_mode(cfg, my_etabs) ==
    IF my_etabs # "None" THEN <<"ApplicationExit">> ELSE << >>

\* ETABSConnector.close, api_connector.py:144-151: the calls it makes.  An
\* exception of ApplicationExit is caught and logged.
close_calls(cfg, my_etabs) ==
    IF ~cfg.attach /\ my_etabs # "None" THEN <<"ApplicationExit">> ELSE << >>

\* A call of ETABSConnector.close.
close ==
    /\ comp = "connector" /\ proc = "running"
    /\ cn_last' = Method("close", "None", close_calls(cn_config, cn_my_etabs))
    /\ UNCHANGED <<System, proc, comp, cn_config, cn_my_etabs, cn_sap_model, restConnector>>

\* The connector has been constructed (api_connector.py:22-33: the modules
\* are loaded, both handles are None) under some setting of the three flags.
InitConnector ==
    /\ comp = "connector"
    /\ System = "loaded"
    /\ proc = "running"
    /\ IdleCheckRet /\ IdleFrameLoads /\ IdleAnalysis /\ IdleSwitch
    /\ cn_config \in [attach : BOOLEAN, remote : BOOLEAN, specify_path : BOOLEAN]
    /\ cn_my_etabs = "None" /\ cn_sap_model = "None" /\ cn_last = NoCall

NextConnector == connect \/ InitializeModel \/ close

SpecConnector == InitConnector /\ [][NextConnector]_vars

\* --- the claims about the connector

\* C7 as stated: connect surfaces every failure to acquire or start the
\* application (attach failure, launch failure, nonzero ApplicationStart) by
\* returning False, neither raising nor terminating, and returns True only
\* when an application instance has been acquired.
C7_AsStated ==
    (comp = "connector" /\ cn_last.method = "connect") =>
        /\ cn_last.ret \in {"True", "False"}
        /\ proc = "running"
        /\ cn_last.ret = "True" => cn_my_etabs = "obj"

\* C8: close requests ApplicationExit if and only if the connector is in
\* launch-new mode and holds an application instance; otherwise it makes no
\* call to the application.
C8_CloseExitsOnlyOwnInstance ==
    (comp = "connector" /\ cn_last.method = "close") =>
        /\ (~cn_config.attach /\ cn_my_etabs = "obj") => cn_last.calls = <<"ApplicationExit">>
        /\ (cn_config.attach \/ cn_my_etabs = "None") => cn_last.calls = << >>

\* close was called on a connector that had attached to a running instance.
C8_Witness ==
    /\ comp = "connector" /\ cn_last.method = "close"
    /\ cn_config.attach /\ cn_my_etabs = "obj" /\ cn_sap_model = "obj"
    /\ cn_last.calls = << >>

CONFIG_TYPES == ("1" :> "SHEAR_WALL") @@ ("2" :> "FRAME")

SupportedTypes == {CONFIG_TYPES[k] : k \in DOMAIN CONFIG_TYPES}

\* A text is a sequence of tokens: "\n" ends a line, " " is white space,
\* "STRUCTURE_TYPE =" is the text the scan looks for, and a type name is the
\* text of that name wherever it stands (in the value or in a comment).
NL == "\n"
WS == " "
SelectorPrefix == "STRUCTURE_TYPE ="

\* content.split('\n'), switch_config.py:51 and :78.
RECURSIVE split(_)
split(content) ==
    IF \A i \in 1..Len(content) : content[i] # NL
    THEN <<content>>
    ELSE LET i == CHOOSE k \in 1..Len(content) :
                      content[k] = NL /\ \A j \in 1..(k - 1) : content[j] # NL
         IN  <<SubSeq(content, 1, i - 1)>> \o split(SubSeq(content, i + 1, Len(content)))

\* '\n'.join(updated_lines), switch_config.py:89.
RECURSIVE join(_)
join(lines) ==
    IF Len(lines) = 0 THEN << >>
    ELSE IF Len(lines) = 1 THEN lines[1]
    ELSE lines[1] \o <<NL>> \o join(Tail(lines))

\* line.strip(), switch_config.py:52 and :82.
RECURSIVE strip(_)
strip(line) ==
    IF line = << >> THEN line
    ELSE IF Head(line) = WS THEN strip(Tail(line))
    ELSE IF line[Len(line)] = WS THEN strip(SubSeq(line, 1, Len(line) - 1))
    ELSE line

\* line.strip().startswith('STRUCTURE_TYPE ='), switch_config.py:52 and :82.
IsSelectorLine(line) ==
    LET t == strip(line) IN t # << >> /\ Head(t) = SelectorPrefix

\* 'SHEAR_WALL' in line, switch_config.py:53 and :55.
InLine(name, line) == \E i \in 1..Len(line) : line[i] = name

\* switch_config.py:83: the line update_config writes,
\*   STRUCTURE_TYPE = "<new_type>"  # 可选: "SHEAR_WALL", "FRAME"
WrittenLine(new_type) ==
    <<SelectorPrefix, WS, new_type, WS, "#", WS, "SHEAR_WALL", WS, "FRAME">>

\* switch_config.py:51-58: the scan over the lines of the text.
RECURSIVE ScanLines(_)
ScanLines(lines) ==
    IF lines = << >> THEN "UNKNOWN"
    ELSE IF IsSelectorLine(Head(lines)) /\ InLine("SHEAR_WALL", Head(lines)) THEN "SHEAR_WALL"
    ELSE IF IsSelectorLine(Head(lines)) /\ InLine("FRAME", Head(lines)) THEN "FRAME"
    ELSE ScanLines(Tail(lines))

\* read_current_config, switch_config.py:39-62.  io = "fails": opening or
\* reading the file raised.
read_current_config(content, io) ==
    IF io = "fails" THEN "ERROR" ELSE ScanLines(split(content))

\* Mutant: update_config that does not write blank lines back.
NotBlank(line) == line # << >>

update_config_drops_blank(content, new_type) ==
    LET lines == split(content) IN
    join(SelectSeq([i \in 1..Len(lines) |->
                      IF IsSelectorLine(lines[i]) THEN WrittenLine(new_type) ELSE lines[i]],
                   NotBlank))

\* update_config, switch_config.py:65-94: the text of the file afterwards.
update_config(content, new_type) ==
    LET lines == split(content) IN
    join([i \in 1..Len(lines) |->
            IF IsSelectorLine(lines[i]) THEN WrittenLine(new_type) ELSE lines[i]])

\* The types update_config is called with: the supported ones and another.
NewTypes == SupportedTypes \cup {"STEEL"}

\* A call of update_config.  Its exceptions are caught and printed
\* (switch_config.py:93-94): when opening the file raises, nothing is written.
sw_UpdateConfig ==
    /\ comp = "switch" /\ proc = "running"
    /\ \E new_type \in NewTypes, io \in {"ok", "fails"} :
        /\ sw_file' = IF io = "ok" THEN update_config(sw_file, new_type) ELSE sw_file
        /\ sw_written' = IF io = "ok" THEN new_type ELSE "none"
    /\ sw_before' = sw_file
    /\ sw_read' = "none"
    /\ UNCHANGED <<System, proc, comp, restSwitch>>

\* A call of read_current_config.
sw_ReadCurrentConfig ==
    /\ comp = "switch" /\ proc = "running"
    /\ \E io \in {"ok", "fails"} : sw_read' = read_current_config(sw_file, io)
    /\ UNCHANGED <<System, proc, comp, sw_file, sw_written, sw_before, restSwitch>>

\* The lines an initializer file is made of here: a blank line, a comment,
\* the test of config/__init__.py:12, a bare selector assignment of each
\* type, an indented one, and the assignment as config/__init__.py:9 has it.
FileLines ==
    { << >>,
      <<"#", WS, "text">>,
      <<"if", WS, SelectorPrefix, "=", WS, "SHEAR_WALL", ":">>,
      <<WS, SelectorPrefix, WS, "FRAME">>,
      WrittenLine("FRAME") }
    \cup {<<SelectorPrefix, WS, t>> : t \in NewTypes}

\* Every text of one to MaxLines lines.
RECURSIVE LinesUpTo(_)
LinesUpTo(n) ==
    IF n = 1 THEN {<<l>> : l \in FileLines}
    ELSE LinesUpTo(n - 1) \cup
         {Append(ls, l) : ls \in {x \in LinesUpTo(n - 1) : Len(x) = n - 1}, l \in FileLines}

InitSwitch ==
    /\ comp = "switch"
    /\ System = "None"
    /\ proc = "running"
    /\ IdleCheckRet /\ IdleFrameLoads /\ IdleAnalysis /\ IdleConnector
    /\ sw_file \in {join(ls) : ls \in LinesUpTo(MaxLines)}
    /\ sw_written = "none"
    /\ sw_read = "none"
    /\ sw_before = sw_file
    /\ IdleCli /\ IdleFn

NextSwitch == sw_UpdateConfig \/ sw_ReadCurrentConfig

SpecSwitch == InitSwitch /\ [][NextSwitch]_vars

\* --- the claims about the switch

\* The text has a selector assignment line.
HasSelectorLine(content) ==
    \E i \in 1..Len(split(content)) : IsSelectorLine(split(content)[i])

\* C10 as stated: for T in {SHEAR_WALL, FRAME} and a file with a selector
\* assignment line, once update_config(T) has written the file a
\* read_current_config that could read the file returns T.
C10_AsStated ==
    (/\ comp = "switch"
     /\ sw_written \in SupportedTypes
     /\ HasSelectorLine(sw_file)
     /\ sw_read \notin {"none", "ERROR"})
    => sw_read = sw_written

\* C12: update_config(T) changes only selector assignment lines: the file
\* has as many lines after as before, and every line that is not a selector
\* assignment is the same line at the same position.
C12_OnlySelectorLinesChange ==
    (comp = "switch" /\ sw_written # "none") =>
        LET before == split(sw_before)
            after == split(sw_file)
        IN  /\ Len(after) = Len(before)
            /\ \A i \in 1..Len(before) :
                  IF IsSelectorLine(before[i])
                  THEN after[i] = WrittenLine(sw_written)
                  ELSE after[i] = before[i]

\* update_config rewrote a file that has a selector line and another line,
\* and the text changed.
C12_Witness ==
    /\ comp = "switch" /\ sw_written = "SHEAR_WALL"
    /\ sw_file # sw_before
    /\ \E i, j \in 1..Len(split(sw_before)) :
          /\ IsSelectorLine(split(sw_before)[i])
          /\ ~IsSelectorLine(split(sw_before)[j])
          /\ split(sw_file)[j] = split(sw_before)[j]

\* ------------------------------------------- switch_config.py: the CLI

\* validate_environment, switch_config.py:129-156.
validate_environment(exists) == exists.init /\ exists.shear_wall /\ exists.frame

\* The arguments main is run with, and sys.argv[1].upper() of each
\* (switch_config.py:229).
Argvs == {"frame", "Frame", "FRAME", "shear_wall", "SHEAR_WALL", "steel"}

upper(a) ==
    CASE a \in {"frame", "Frame", "FRAME"} -> "FRAME"
      [] a \in {"shear_wall", "SHEAR_WALL"} -> "SHEAR_WALL"
      [] a = "steel" -> "STEEL"
      [] OTHER -> a

\* str.lower() of the answers typed at the two prompts (switch_config.py:167
\* and :185).
lower(a) ==
    CASE a = "Q" -> "q"
      [] a = "Y" -> "y"
      [] a = "YES" -> "yes"
      [] OTHER -> a

\* What is typed at the menu prompt and at the confirmation prompt, after
\* strip(); "^C" is KeyboardInterrupt, "EOF" another exception of input().
MenuInputs == {"1", "2", "3", "", "q", "Q", "^C", "EOF"}
ConfirmInputs == {"y", "Y", "yes", "YES", "n", "", "^C", "EOF"}

\* batch_switch, switch_config.py:202-214: what it returns, what it read as
\* the current type, whether update_config wrote the file, and the text of
\* the file afterwards.  ioR, ioW: whether the file could be read / rewritten.
batch_switch(content, target_type, ioR, ioW) ==
    IF target_type \notin SupportedTypes
    THEN [ret |-> "False", current |-> "none", wrote |-> FALSE, content |-> content]
    ELSE IF target_type = read_current_config(content, ioR)
    THEN [ret |-> "True", current |-> read_current_config(content, ioR),
          wrote |-> FALSE, content |-> content]
    ELSE [ret |-> "True", current |-> read_current_config(content, ioR),
          wrote |-> (ioW = "ok"),
          content |-> IF ioW = "ok" THEN update_config(content, target_type) ELSE content]

\* main with one argument, switch_config.py:217-232: the pre-flight check,
\* then batch_switch of the upper-cased name.
cli_MainBatch ==
    /\ comp = "cli" /\ proc = "running" /\ cli_pc = "start" /\ cli_argv # "none"
    /\ cli_pc' = "done"
    /\ IF ~validate_environment(cli_exists)
       THEN /\ cli_run' = [cli_run EXCEPT !.preflight = "False"]
            /\ UNCHANGED sw_file
       ELSE \E ioR \in {"ok", "fails"}, ioW \in {"ok", "fails"} :
              LET r == batch_switch(sw_file, upper(cli_argv), ioR, ioW) IN
              /\ cli_run' = [cli_run EXCEPT !.preflight = "True",
                                            !.target = upper(cli_argv),
                                            !.ret = r.ret,
                                            !.current = r.current,
                                            !.wrote = r.wrote]
              /\ sw_file' = r.content
    /\ UNCHANGED <<System, proc, comp, sw_written, sw_read, sw_before,
                   cli_exists, cli_argv, cli_file0, restCli>>

\* main without argument, switch_config.py:217-236, up to the first prompt
\* of interactive_switch (switch_config.py:161-166).
cli_MainInteractive ==
    /\ comp = "cli" /\ proc = "running" /\ cli_pc = "start" /\ cli_argv = "none"
    /\ IF ~validate_environment(cli_exists)
       THEN cli_pc' = "done" /\ cli_run' = [cli_run EXCEPT !.preflight = "False"]
       ELSE cli_pc' = "menu" /\ cli_run' = [cli_run EXCEPT !.preflight = "True"]
    /\ UNCHANGED <<System, proc, comp, swVars, cli_exists, cli_argv, cli_file0, restCli>>

\* interactive_switch, switch_config.py:165-182: an answer at the menu
\* prompt, up to the next prompt or the return.
cli_Choice ==
    /\ comp = "cli" /\ proc = "running" /\ cli_pc = "menu"
    /\ \E choice \in MenuInputs, ioR \in {"ok", "fails"} :
        LET current == read_current_config(sw_file, ioR) IN
        IF choice = "^C" \/ lower(choice) = "q"
        THEN /\ cli_pc' = "done"
             /\ cli_run' = [cli_run EXCEPT !.choice = choice, !.current = "none",
                                           !.confirm = "none"]
        ELSE IF choice = "EOF" \/ choice \notin DOMAIN CONFIG_TYPES
        THEN /\ cli_pc' = "menu"
             /\ cli_run' = [cli_run EXCEPT !.choice = choice, !.current = "none",
                                           !.confirm = "none"]
        ELSE IF CONFIG_TYPES[choice] = current
        THEN /\ cli_pc' = "menu"
             /\ cli_run' = [cli_run EXCEPT !.choice = choice, !.current = current,
                                           !.confirm = "none"]
        ELSE /\ cli_pc' = "confirm"
             /\ cli_run' = [cli_run EXCEPT !.choice = choice, !.current = current,
                                           !.confirm = "none"]
    /\ UNCHANGED <<System, proc, comp, swVars, cli_exists, cli_argv, cli_file0, restCli>>

\* interactive_switch, switch_config.py:184-199: an answer at the
\* confirmation prompt, up to the next prompt or the return.
cli_Confirm ==
    /\ comp = "cli" /\ proc = "running" /\ cli_pc = "confirm"
    /\ \E confirm \in ConfirmInputs, ioW \in {"ok", "fails"} :
        IF confirm = "^C"
        THEN /\ cli_pc' = "done"
             /\ cli_run' = [cli_run EXCEPT !.confirm = confirm]
             /\ UNCHANGED sw_file
        ELSE IF confirm = "EOF"
        THEN /\ cli_pc' = "menu"
             /\ cli_run' = [cli_run EXCEPT !.confirm = confirm]
             /\ UNCHANGED sw_file
        ELSE IF lower(confirm) \in {"y", "yes"}
        THEN /\ cli_pc' = "done"
             /\ cli_run' = [cli_run EXCEPT !.confirm = confirm, !.wrote = (ioW = "ok"),
                                           !.target = CONFIG_TYPES[cli_run.choice]]
             /\ sw_file' = IF ioW = "ok"
                           THEN update_config(sw_file, CONFIG_TYPES[cli_run.choice])
                           ELSE sw_file
        ELSE /\ cli_pc' = "menu"
             /\ cli_run' = [cli_run EXCEPT !.confirm = confirm]
             /\ UNCHANGED sw_file
    /\ UNCHANGED <<System, proc, comp, sw_written, sw_read, sw_before,
                   cli_exists, cli_argv, cli_file0, restCli>>

\* main is started on some initializer text, with any of the three files
\* present or missing, with or without an argument.
InitCli ==
    /\ comp = "cli"
    /\ System = "None"
    /\ proc = "running"
    /\ IdleCheckRet /\ IdleFrameLoads /\ IdleAnalysis /\ IdleConnector /\ IdleFn
    /\ sw_file \in {join(ls) : ls \in LinesUpTo(MaxLines)}
    /\ sw_written = "none" /\ sw_read = "none" /\ sw_before = << >>
    /\ cli_exists \in [init : BOOLEAN, shear_wall : BOOLEAN, frame : BOOLEAN]
    /\ cli_argv \in Argvs \cup {"none"}
    /\ cli_pc = "start"
    /\ cli_file0 = sw_file
    /\ cli_run = NoRun

NextCli == cli_MainBatch \/ cli_MainInteractive \/ cli_Choice \/ cli_Confirm

SpecCli == InitCli /\ [][NextCli]_vars

\* --- the claims about the CLI

\* The first token after the selector prefix and white space: the value a
\* selector line assigns.
RECURSIVE FirstToken(_)
FirstToken(line) ==
    IF line = << >> THEN "none"
    ELSE IF Head(line) = WS THEN FirstToken(Tail(line))
    ELSE Head(line)

AssignedType(line) == FirstToken(Tail(strip(line)))

\* The types the selector lines of a text assign.
AssignedTypes(content) ==
    {AssignedType(split(content)[i]) :
        i \in {k \in 1..Len(split(content)) : IsSelectorLine(split(content)[k])}}

\* C11 as stated: when batch_switch(T) returns True for a supported T, on a
\* file with a selector assignment that could be read and, where the code
\* writes it, rewritten, the selector assignment in the file assigns T; for
\* an unsupported name it returns False and the file is not written.
C11_AsStated ==
    (comp = "cli" /\ cli_argv # "none" /\ cli_pc = "done" /\ cli_run.preflight = "True") =>
        /\ (/\ cli_run.ret = "True"
            /\ AssignedTypes(cli_file0) # {}
            /\ cli_run.current # "ERROR"
            /\ (cli_run.wrote \/ cli_run.current = cli_run.target))
           => AssignedTypes(sw_file) = {cli_run.target}
        /\ cli_run.target \notin SupportedTypes
           => cli_run.ret = "False" /\ ~cli_run.wrote /\ sw_file = cli_file0

\* The part of C11 that holds: an unsupported name is refused without a
\* write, and a run that wrote the file left every selector line assigning
\* the target.
C11_RefusesUnsupported ==
    (comp = "cli" /\ cli_argv # "none" /\ cli_pc = "done" /\ cli_run.preflight = "True") =>
        /\ cli_run.target \notin SupportedTypes
           => cli_run.ret = "False" /\ ~cli_run.wrote /\ sw_file = cli_file0
        /\ (cli_run.wrote /\ AssignedTypes(cli_file0) # {})
           => AssignedTypes(sw_file) = {cli_run.target}

\* C13 as stated: the file is written only after the pre-flight check found
\* the three files; in interactive mode only after a valid menu choice that
\* differs from the configuration the file has (one it could read) was
\* confirmed with y or yes;
\* a run that did not write leaves the text of the file as it was.
C13_AsStated ==
    comp = "cli" =>
        /\ cli_run.wrote =>
              /\ cli_run.preflight = "True" /\ validate_environment(cli_exists)
              /\ cli_argv = "none" =>
                    /\ cli_run.choice \in DOMAIN CONFIG_TYPES
                    /\ lower(cli_run.confirm) \in {"y", "yes"}
                    /\ (Cardinality(AssignedTypes(cli_file0)) = 1 /\ cli_run.current # "ERROR")
                       => CONFIG_TYPES[cli_run.choice] \notin AssignedTypes(cli_file0)
        /\ ~cli_run.wrote => sw_file = cli_file0

\* The part of C13 that holds: the same with "differs from the current
\* configuration" read as the code tests it, against what
\* read_current_config returned for the choice.
C13_WriteIsGuarded ==
    comp = "cli" =>
        /\ cli_run.wrote =>
              /\ cli_run.preflight = "True" /\ validate_environment(cli_exists)
              /\ cli_argv = "none" =>
                    /\ cli_run.choice \in DOMAIN CONFIG_TYPES
                    /\ lower(cli_run.confirm) \in {"y", "yes"}
                    /\ CONFIG_TYPES[cli_run.choice] # cli_run.current
        /\ ~cli_run.wrote => sw_file = cli_file0

\* --------------------------------------------- floating-point arithmetic
\*
\* Python's float is a binary floating-point number: every operation gives
\* the exactly computed value rounded to the nearest number of the format,
\* ties to the even significand.  The model keeps the format and shortens
\* the significand from 53 bits to MantissaBits bits.  A number is
\* [m, e], standing for m * 2^e, with m = 0 (and e = 0) or
\* 2^(MantissaBits-1) <= |m| < 2^MantissaBits.

RECURSIVE Pow2(_)
Pow2(n) == IF n <= 0 THEN 1 ELSE 2 * Pow2(n - 1)

Zero == [m |-> 0, e |-> 0]

\* num/den * 2^e with num >= 0 and den > 0, rounded to the format.
RECURSIVE Norm(_, _, _)
Norm(num, den, e) ==
    IF num = 0 THEN Zero
    ELSE IF num >= den * Pow2(MantissaBits) THEN Norm(num, den * 2, e + 1)
    ELSE IF num < den * Pow2(MantissaBits - 1) THEN Norm(num * 2, den, e - 1)
    ELSE LET q == num \div den
             r == num % den
             up == 2 * r > den \/ (2 * r = den /\ q % 2 = 1)
             m == IF up THEN q + 1 ELSE q
         IN  IF m = Pow2(MantissaBits)
             THEN [m |-> Pow2(MantissaBits - 1), e |-> e + 1]
             ELSE [m |-> m, e |-> e]

\* num/den * 2^e of either sign (den > 0), rounded to the format.
fl(num, den, e) ==
    IF num >= 0 THEN Norm(num, den, e)
    ELSE LET r == Norm(0 - num, den, e) IN [m |-> 0 - r.m, e |-> r.e]

\* The float of an integer literal and of a decimal literal n/d.
Float(n) == fl(n, 1, 0)
Dec(n, d) == fl(n, d, 0)

\* The common exponent of two numbers and their significands at it.
MinExp(a, b) ==
    IF a.m = 0 THEN b.e ELSE IF b.m = 0 THEN a.e ELSE IF a.e < b.e THEN a.e ELSE b.e
At(a, e0) == IF a.m = 0 THEN 0 ELSE a.m * Pow2(a.e - e0)

fneg(a) == [m |-> 0 - a.m, e |-> a.e]
fabs(a) == IF a.m < 0 THEN fneg(a) ELSE a
fadd(a, b) == fl(At(a, MinExp(a, b)) + At(b, MinExp(a, b)), 1, MinExp(a, b))
fsub(a, b) == fadd(a, fneg(b))
fmul(a, b) == fl(a.m * b.m, 1, a.e + b.e)
fdiv(a, b) == IF b.m > 0 THEN fl(a.m, b.m, a.e - b.e) ELSE fl(0 - a.m, 0 - b.m, a.e - b.e)
flt(a, b) == At(a, MinExp(a, b)) < At(b, MinExp(a, b))
fle(a, b) == At(a, MinExp(a, b)) <= At(b, MinExp(a, b))
fmax(a, b) == IF flt(a, b) THEN b ELSE a
fmin(a, b) == IF flt(b, a) THEN b ELSE a

\* -------------------------------------------------- geometry/mesh_utils.py

\* min(), max() of a non-empty list of floats.
RECURSIVE SeqMin(_)
SeqMin(xs) ==
    IF Len(xs) = 1 THEN xs[1] ELSE fmin(xs[1], SeqMin(Tail(xs)))

RECURSIVE SeqMax(_)
SeqMax(xs) ==
    IF Len(xs) = 1 THEN xs[1] ELSE fmax(xs[1], SeqMax(Tail(xs)))

\* The (i, j) of the idx-th cell: the loops run i outermost, j innermost.
CellI(idx, inner) == (idx - 1) \div inner
CellJ(idx, inner) == (idx - 1) % inner

\* create_mesh_grid, mesh_utils.py:12-72.
create_mesh_grid(x_min, x_max, y_min, y_max, z_min, z_max, mesh_h, mesh_v, orientation) ==
    IF orientation = "X"
    THEN LET dx == fdiv(fsub(x_max, x_min), Float(mesh_h))
             dz == fdiv(fsub(z_max, z_min), Float(mesh_v))
         IN  [idx \in 1..(mesh_h * mesh_v) |->
                LET i == CellI(idx, mesh_v)
                    j == CellJ(idx, mesh_v)
                    x0 == fadd(x_min, fmul(Float(i), dx))
                    x1 == fadd(x_min, fmul(Float(i + 1), dx))
                    z0 == fadd(z_min, fmul(Float(j), dz))
                    z1 == fadd(z_min, fmul(Float(j + 1), dz))
                IN  [x |-> <<x0, x1, x1, x0>>,
                     y |-> <<y_min, y_min, y_min, y_min>>,
                     z |-> <<z0, z0, z1, z1>>]]
    ELSE LET dy == fdiv(fsub(y_max, y_min), Float(mesh_h))
             dz == fdiv(fsub(z_max, z_min), Float(mesh_v))
         IN  [idx \in 1..(mesh_h * mesh_v) |->
                LET i == CellI(idx, mesh_v)
                    j == CellJ(idx, mesh_v)
                    y0 == fadd(y_min, fmul(Float(i), dy))
                    y1 == fadd(y_min, fmul(Float(i + 1), dy))
                    z0 == fadd(z_min, fmul(Float(j), dz))
                    z1 == fadd(z_min, fmul(Float(j + 1), dz))
                IN  [x |-> <<x_min, x_min, x_min, x_min>>,
                     y |-> <<y0, y1, y1, y0>>,
                     z |-> <<z0, z0, z1, z1>>]]

\* create_slab_mesh_grid, mesh_utils.py:75-111.
create_slab_mesh_grid(x_min, x_max, y_min, y_max, z_coord, mesh_x, mesh_y) ==
    LET dx == fdiv(fsub(x_max, x_min), Float(mesh_x))
        dy == fdiv(fsub(y_max, y_min), Float(mesh_y))
    IN  [idx \in 1..(mesh_x * mesh_y) |->
           LET i == CellI(idx, mesh_y)
               j == CellJ(idx, mesh_y)
               x0 == fadd(x_min, fmul(Float(i), dx))
               x1 == fadd(x_min, fmul(Float(i + 1), dx))
               y0 == fadd(y_min, fmul(Float(j), dy))
               y1 == fadd(y_min, fmul(Float(j + 1), dy))
           IN  [x |-> <<x0, x1, x1, x0>>,
                y |-> <<y0, y0, y1, y1>>,
                z |-> <<z_coord, z_coord, z_coord, z_coord>>]]

\* The panels the grid functions are called on: a rectangle with a
\* horizontal range [a_min, a_max] and a second range [b_min, b_max] of
\* whole-number coordinates, in the plane c, cut mesh_h by mesh_v.  kind is
\* "X", "Y" (a wall or beam panel along that axis, b the height) or "slab".
Panels ==
    [kind : {"X", "Y", "slab"},
     a_min : 0..1, a_max : 1..MaxCoord,
     b_min : 0..1, b_max : {3, MaxCoord},
     c : {0, 6},
     mesh_h : 1..MaxMesh, mesh_v : 1..MaxMesh]

\* The grid of a panel, by the function of its kind.
GridOf(p) ==
    IF p.kind = "X"
    THEN create_mesh_grid(Float(p.a_min), Float(p.a_max), Float(p.c), Float(p.c),
                          Float(p.b_min), Float(p.b_max), p.mesh_h, p.mesh_v, "X")
    ELSE IF p.kind = "Y"
    THEN create_mesh_grid(Float(p.c), Float(p.c), Float(p.a_min), Float(p.a_max),
                          Float(p.b_min), Float(p.b_max), p.mesh_h, p.mesh_v, "Y")
    ELSE create_slab_mesh_grid(Float(p.a_min), Float(p.a_max), Float(p.b_min), Float(p.b_max),
                               Float(p.c), p.mesh_h, p.mesh_v)

\* A call of create_mesh_grid on a wall or beam panel.
mg_CreateMeshGrid ==
    /\ comp = "mesh_grid" /\ fn_ret = NotCalled /\ fn_args.kind \in {"X", "Y"}
    /\ fn_ret' = [fn |-> "create_mesh_grid", grid |-> GridOf(fn_args)]
    /\ UNCHANGED <<System, proc, comp, fn_args, restFn>>

\* A call of create_slab_mesh_grid on a slab panel.
mg_CreateSlabMeshGrid ==
    /\ comp = "mesh_grid" /\ fn_ret = NotCalled /\ fn_args.kind = "slab"
    /\ fn_ret' = [fn |-> "create_slab_mesh_grid", grid |-> GridOf(fn_args)]
    /\ UNCHANGED <<System, proc, comp, fn_args, restFn>>

InitMeshGrid ==
    /\ comp = "mesh_grid"
    /\ System = "loaded"
    /\ proc = "running"
    /\ IdleButFn
    /\ fn_args \in {p \in Panels : p.a_min < p.a_max /\ p.b_min < p.b_max}
    /\ fn_ret = NotCalled

NextMeshGrid == mg_CreateMeshGrid \/ mg_CreateSlabMeshGrid

SpecMeshGrid == InitMeshGrid /\ [][NextMeshGrid]_vars

\* --- the claims about the mesh grid

\* The two in-plane coordinate lists of a cell of the panel p: along the
\* horizontal range and along the second range.
CellA(p, cell) == IF p.kind = "Y" THEN cell.y ELSE cell.x
CellB(p, cell) == IF p.kind = "slab" THEN cell.y ELSE cell.z
CellC(p, cell) == IF p.kind = "X" THEN cell.y ELSE IF p.kind = "Y" THEN cell.x ELSE cell.z

\* A cell is a 4-point rectangle in the plane of the panel.
IsPlanarRectangle(p, cell) ==
    LET a == CellA(p, cell)
        b == CellB(p, cell)
        c == CellC(p, cell)
    IN  /\ Len(a) = 4 /\ Len(b) = 4 /\ Len(c) = 4
        /\ \A k \in 1..4 : c[k] = Float(p.c)
        /\ a[1] = a[4] /\ a[2] = a[3] /\ flt(a[1], a[2])
        /\ b[1] = b[2] /\ b[3] = b[4] /\ flt(b[1], b[3])

\* Two cells do not overlap in area.
NoOverlap(p, c1, c2) ==
    \/ fle(CellA(p, c1)[2], CellA(p, c2)[1]) \/ fle(CellA(p, c2)[2], CellA(p, c1)[1])
    \/ fle(CellB(p, c1)[3], CellB(p, c2)[1]) \/ fle(CellB(p, c2)[3], CellB(p, c1)[1])

\* The cells reach exactly from edge to edge of the panel.
CoversPanel(p, grid) ==
    /\ \E k \in 1..Len(grid) : CellA(p, grid[k])[1] = Float(p.a_min)
    /\ \E k \in 1..Len(grid) : CellA(p, grid[k])[2] = Float(p.a_max)
    /\ \E k \in 1..Len(grid) : CellB(p, grid[k])[1] = Float(p.b_min)
    /\ \E k \in 1..Len(grid) : CellB(p, grid[k])[3] = Float(p.b_max)
    /\ \A k \in 1..Len(grid) :
          /\ fle(Float(p.a_min), CellA(p, grid[k])[1]) /\ fle(CellA(p, grid[k])[2], Float(p.a_max))
          /\ fle(Float(p.b_min), CellB(p, grid[k])[1]) /\ fle(CellB(p, grid[k])[3], Float(p.b_max))

\* C15 as stated: for every rectangular panel and all H, V >= 1 the grid has
\* exactly H*V cells, each a 4-point planar rectangle; the bounding boxes of
\* the cells together are the bounding box of the panel, and no two cells
\* overlap.
C15_AsStated ==
    (comp = "mesh_grid" /\ fn_ret # NotCalled) =>
        /\ Len(fn_ret.grid) = fn_args.mesh_h * fn_args.mesh_v
        /\ \A k \in 1..Len(fn_ret.grid) : IsPlanarRectangle(fn_args, fn_ret.grid[k])
        /\ CoversPanel(fn_args, fn_ret.grid)
        /\ \A k1, k2 \in 1..Len(fn_ret.grid) :
              k1 # k2 => NoOverlap(fn_args, fn_ret.grid[k1], fn_ret.grid[k2])

\* The part of C15 that holds: H*V cells in the plane of the panel, starting
\* at the panel's lower edges, each cell beginning exactly where its
\* neighbour ends, no two overlapping.
C15_GridIsContiguous ==
    (comp = "mesh_grid" /\ fn_ret # NotCalled) =>
        LET p == fn_args
            grid == fn_ret.grid
        IN  /\ Len(grid) = p.mesh_h * p.mesh_v
            /\ \A k \in 1..Len(grid) :
                  /\ \A n \in 1..4 : CellC(p, grid[k])[n] = Float(p.c)
                  /\ CellI(k, p.mesh_v) = 0 => CellA(p, grid[k])[1] = Float(p.a_min)
                  /\ CellJ(k, p.mesh_v) = 0 => CellB(p, grid[k])[1] = Float(p.b_min)
                  /\ CellJ(k, p.mesh_v) > 0 => CellB(p, grid[k])[1] = CellB(p, grid[k - 1])[3]
                  /\ CellI(k, p.mesh_v) > 0 =>
                         CellA(p, grid[k])[1] = CellA(p, grid[k - p.mesh_v])[2]
            /\ \A k1, k2 \in 1..Len(grid) : k1 # k2 => NoOverlap(p, grid[k1], grid[k2])

\* ------------------------- geometry: create_meshed_element / _slab

\* Mutant: validate_coordinates without the three-point minimum.
validate_coordinates_any_count(x_coords, y_coords, z_coords, numeric) ==
    IF ~(Len(x_coords) = Len(y_coords) /\ Len(y_coords) = Len(z_coords)) THEN FALSE
    ELSE numeric

\* validate_coordinates, common.py:142-169.  numeric: float(coord) succeeds
\* for every coordinate.
validate_coordinates(x_coords, y_coords, z_coords, numeric) ==
    IF ~(Len(x_coords) = Len(y_coords) /\ Len(y_coords) = Len(z_coords)) THEN FALSE
    ELSE IF Len(x_coords) < 3 THEN FALSE
    ELSE numeric

\* len(set(coords)), common.py:77-78.
Distinct(coords) == Cardinality({coords[k] : k \in 1..Len(coords)})

\* calculate_element_dimensions, common.py:66-89, of non-empty lists.
calculate_element_dimensions(x_coords, y_coords) ==
    LET width_x == IF Distinct(x_coords) > 1
                   THEN fabs(fsub(SeqMax(x_coords), SeqMin(x_coords))) ELSE Zero
        width_y == IF Distinct(y_coords) > 1
                   THEN fabs(fsub(SeqMax(y_coords), SeqMin(y_coords))) ELSE Zero
    IN  [width_x |-> width_x, width_y |-> width_y,
         x_min |-> SeqMin(x_coords), x_max |-> SeqMax(x_coords),
         y_min |-> SeqMin(y_coords), y_max |-> SeqMax(y_coords),
         is_x_direction |-> flt(width_y, width_x)]

\* mesh_utils.py:143-170: the grid create_meshed_element asks for.
ElementGrid(x_list, y_list, z_list, mesh_h, mesh_v) ==
    LET d == calculate_element_dimensions(x_list, y_list) IN
    IF d.is_x_direction
    THEN create_mesh_grid(d.x_min, d.x_max, y_list[1], y_list[1],
                          SeqMin(z_list), SeqMax(z_list), mesh_h, mesh_v, "X")
    ELSE create_mesh_grid(x_list[1], x_list[1], d.y_min, d.y_max,
                          SeqMin(z_list), SeqMax(z_list), mesh_h, mesh_v, "Y")

\* mesh_utils.py:220-233: the grid create_meshed_slab asks for.
SlabGrid(x_list, y_list, z_list, mesh_x, mesh_y) ==
    LET d == calculate_element_dimensions(x_list, y_list) IN
    create_slab_mesh_grid(d.x_min, d.x_max, d.y_min, d.y_max, z_list[1], mesh_x, mesh_y)

\* How a call that got past the validation ends (mesh_utils.py:139-196 and
\* :219-256).  The first `failAt - 1` cells are created; the AddByCoord of
\* cell failAt has the outcome o (failAt = 0: every AddByCoord returns 0).
\* An exception leaves the function; a status check_ret refuses ends the
\* process.  The calls that label a created cell are taken to succeed.
CreateCells(sys, n, failAt, o, fn) ==
    IF failAt \in 1..n /\ o.raised
    THEN [fn |-> fn, ret |-> "raised", names |-> 0, created |-> failAt, warned |-> FALSE]
    ELSE IF failAt \in 1..n /\ check_ret(sys, IntRet(o.code), N_AddByCoord, {0}).exit
    THEN [fn |-> fn, ret |-> "exit", names |-> 0, created |-> failAt, warned |-> FALSE]
    ELSE [fn |-> fn, ret |-> "names", names |-> n, created |-> n, warned |-> FALSE]

\* mesh_utils.py:135-137 and :215-217: the coordinates were refused.
Skipped(fn) == [fn |-> fn, ret |-> "names", names |-> 0, created |-> 0, warned |-> TRUE]

\* min() of an empty list raises (common.py:83): the call ends in ValueError.
RaisedEarly(fn) == [fn |-> fn, ret |-> "raised", names |-> 0, created |-> 0, warned |-> FALSE]

\* create_meshed_element, mesh_utils.py:114-196: the names it returns (their
\* number), the AddByCoord calls it made, whether it warned, how it ended.
create_meshed_element(sys, a, failAt, o) ==
    IF ~validate_coordinates(a.x_list, a.y_list, a.z_list, a.numeric)
    THEN Skipped("create_meshed_element")
    ELSE IF Len(a.x_list) = 0 THEN RaisedEarly("create_meshed_element")
    ELSE CreateCells(sys, Len(ElementGrid(a.x_list, a.y_list, a.z_list, a.mesh_h, a.mesh_v)),
                     failAt, o, "create_meshed_element")

\* create_meshed_slab, mesh_utils.py:199-256.
create_meshed_slab(sys, a, failAt, o) ==
    IF ~validate_coordinates(a.x_list, a.y_list, a.z_list, a.numeric)
    THEN Skipped("create_meshed_slab")
    ELSE IF Len(a.x_list) = 0 THEN RaisedEarly("create_meshed_slab")
    ELSE CreateCells(sys, Len(SlabGrid(a.x_list, a.y_list, a.z_list, a.mesh_h, a.mesh_v)),
                     failAt, o, "create_meshed_slab")

\* A call of create_meshed_element.
me_CreateMeshedElement ==
    /\ comp = "meshed" /\ proc = "running" /\ fn_ret = NotCalled
    /\ \E failAt \in 0..(MaxMesh * MaxMesh), o \in ApiOutcomes :
        /\ fn_ret' = create_meshed_element(System, fn_args, failAt, o)
        /\ proc' = IF fn_ret'.ret = "exit" THEN "exited" ELSE proc
    /\ UNCHANGED <<System, comp, fn_args, restFn>>

\* A call of create_meshed_slab.
me_CreateMeshedSlab ==
    /\ comp = "meshed" /\ proc = "running" /\ fn_ret = NotCalled
    /\ \E failAt \in 0..(MaxMesh * MaxMesh), o \in ApiOutcomes :
        /\ fn_ret' = create_meshed_slab(System, fn_args, failAt, o)
        /\ proc' = IF fn_ret'.ret = "exit" THEN "exited" ELSE proc
    /\ UNCHANGED <<System, comp, fn_args, restFn>>

\* The first n coordinates of a rectangle's corner list, going round again
\* past the fourth.
Corners(list, n) == [k \in 1..n |-> list[((k - 1) % 4) + 1]]

\* The coordinate lists the two functions are called with: those of a wall
\* panel or of a slab, each list cut or extended to 0 .. MaxPts points.
MeshedArgs ==
    { [x_list |-> Corners(<<Float(0), Float(2), Float(2), Float(0)>>, lx),
       y_list |-> Corners(IF slab THEN <<Float(0), Float(0), Float(6), Float(6)>>
                          ELSE <<Float(6), Float(6), Float(6), Float(6)>>, ly),
       z_list |-> Corners(IF slab THEN <<Float(3), Float(3), Float(3), Float(3)>>
                          ELSE <<Float(0), Float(0), Float(3), Float(3)>>, lz),
       numeric |-> numeric, mesh_h |-> h, mesh_v |-> v] :
      lx \in 0..MaxPts, ly \in 0..MaxPts, lz \in 0..MaxPts,
      slab \in BOOLEAN, numeric \in BOOLEAN, h \in 1..MaxMesh, v \in {1, MaxMesh} }

InitMeshed ==
    /\ comp = "meshed"
    /\ System = "loaded"
    /\ proc = "running"
    /\ IdleButFn
    /\ fn_args \in MeshedArgs
    /\ fn_ret = NotCalled

NextMeshed == me_CreateMeshedElement \/ me_CreateMeshedSlab

SpecMeshed == InitMeshed /\ [][NextMeshed]_vars

\* --- the claim about the skipped elements

\* The lists disagree in length or hold fewer than three points.
BadCount(a) ==
    \/ ~(Len(a.x_list) = Len(a.y_list) /\ Len(a.y_list) = Len(a.z_list))
    \/ Len(a.x_list) < 3

\* C14: create_meshed_element and create_meshed_slab, given coordinate lists
\* whose lengths disagree or that hold fewer than 3 points, make no
\* object-creation call, return an empty name list with a warning, and do
\* not abort the run.
C14_BadCoordinatesAreSkipped ==
    (comp = "meshed" /\ fn_ret # NotCalled /\ BadCount(fn_args)) =>
        /\ fn_ret.ret = "names" /\ fn_ret.names = 0
        /\ fn_ret.created = 0
        /\ fn_ret.warned
        /\ proc = "running"

\* create_meshed_slab was called with three lists of two points each.
C14_Witness ==
    /\ comp = "meshed" /\ fn_ret # NotCalled /\ fn_ret.fn = "create_meshed_slab"
    /\ Len(fn_args.x_list) = 2 /\ Len(fn_args.y_list) = 2 /\ Len(fn_args.z_list) = 2
    /\ fn_args.numeric
    /\ fn_ret.names = 0 /\ fn_ret.warned

\* ------------------------------------- geometry/shear_wall_geometry.py

\* generate_grid_coordinates, common.py:54-63: the coordinate of grid line i
\* (from 0) at the given spacing.
GridCoord(i, spacing) == fmul(Float(i), spacing)

\* Mutant: quarter segments.
seg_f_quarter == fdiv(Float(1), Float(4))

\* shear_wall_geometry.py:37: seg_f = 1 / 3.0.
seg_f == fdiv(Float(1), Float(3))

\* StructuralElementPlan, common.py:11-33.
StructuralElementPlan(x_coords, y_coords, base_name, is_coupling_beam, prefix) ==
    [x_coords |-> x_coords, y_coords |-> y_coords, base_name |-> base_name,
     is_coupling_beam |-> is_coupling_beam, element_type_prefix |-> prefix]

\* shear_wall_geometry.py:44-61 and :68-85: the `part`-th (0, 1, 2) element
\* of the bay that starts at s and ends at e on a grid of the given spacing:
\* its two coordinates along the bay.
SegStart(part, s, spacing) ==
    IF part = 0 THEN s
    ELSE IF part = 1 THEN fadd(s, fmul(spacing, seg_f))
    ELSE fadd(s, fmul(fmul(spacing, Float(2)), seg_f))

SegEnd(part, s, e, spacing) ==
    IF part = 0 THEN fadd(s, fmul(spacing, seg_f))
    ELSE IF part = 1 THEN fadd(s, fmul(fmul(spacing, Float(2)), seg_f))
    ELSE e

\* shear_wall_geometry.py:40-61: the horizontal elements, along each
\* Y grid line, bay by bay.
HorizontalElements(c) ==
    [k \in 1..(3 * (c.nx - 1) * c.ny) |->
        LET bay == (k - 1) \div 3
            part == (k - 1) % 3
            iy == bay \div (c.nx - 1)
            ix == bay % (c.nx - 1)
            xs == GridCoord(ix, c.sx)
            xe == GridCoord(ix + 1, c.sx)
            y_c == GridCoord(iy, c.sy)
            a == SegStart(part, xs, c.sx)
            b == SegEnd(part, xs, xe, c.sx)
        IN  StructuralElementPlan(<<a, b, b, a>>, <<y_c, y_c, y_c, y_c>>,
                                  <<IF part = 0 THEN "HWL" ELSE IF part = 1 THEN "HCB" ELSE "HWR",
                                    ix, iy>>,
                                  part = 1, IF part = 1 THEN "S" ELSE "P")]

\* shear_wall_geometry.py:64-85: the vertical elements, along each X grid
\* line, bay by bay.
VerticalElements(c) ==
    [k \in 1..(3 * c.nx * (c.ny - 1)) |->
        LET bay == (k - 1) \div 3
            part == (k - 1) % 3
            ix == bay \div (c.ny - 1)
            iy == bay % (c.ny - 1)
            ys == GridCoord(iy, c.sy)
            ye == GridCoord(iy + 1, c.sy)
            x_c == GridCoord(ix, c.sx)
            a == SegStart(part, ys, c.sy)
            b == SegEnd(part, ys, ye, c.sy)
        IN  StructuralElementPlan(<<x_c, x_c, x_c, x_c>>, <<a, b, b, a>>,
                                  <<IF part = 0 THEN "VWB" ELSE IF part = 1 THEN "VCB" ELSE "VWT",
                                    ix, iy>>,
                                  part = 1, IF part = 1 THEN "S" ELSE "P")]

\* generate_shear_wall_planar_layout, shear_wall_geometry.py:23-87, under
\* the configuration c (NUM_GRID_LINES_X, NUM_GRID_LINES_Y, SPACING_X,
\* SPACING_Y).
generate_shear_wall_planar_layout(c) == HorizontalElements(c) \o VerticalElements(c)

\* The grid spacings a configuration may set, in metres; 6.0 is the shipped
\* one (config_shear_wall.py:38).
Spacings == {3, 4, 5, 6}

sl_Generate ==
    /\ comp = "layout" /\ fn_ret = NotCalled
    /\ fn_ret' = [fn |-> "generate_shear_wall_planar_layout",
                  elements |-> generate_shear_wall_planar_layout(fn_args)]
    /\ UNCHANGED <<System, proc, comp, fn_args, restFn>>

InitLayout ==
    /\ comp = "layout"
    /\ System = "loaded"
    /\ proc = "running"
    /\ IdleButFn
    /\ fn_args \in {[nx |-> nx, ny |-> ny, sx |-> Float(sx), sy |-> Float(sy)] :
                      nx \in 1..MaxGridLines, ny \in 1..MaxGridLines,
                      sx \in Spacings, sy \in Spacings}
    /\ fn_ret = NotCalled

NextLayout == sl_Generate

SpecLayout == InitLayout /\ [][NextLayout]_vars

\* --- the claim about the layout

\* The three elements of the b-th bay (from 0) of the list els, along the
\* axis `along` ("x" or "y"), between the grid coordinates s and e: pier,
\* coupling beam, pier in this order, each beginning where the one before
\* ends, the first at s, the last ending at e.
BayIsThreeSegments(els, b, along, s, e) ==
    LET co(n) == IF along = "x" THEN els[3 * b + n].x_coords ELSE els[3 * b + n].y_coords IN
    /\ ~els[3 * b + 1].is_coupling_beam /\ els[3 * b + 1].element_type_prefix = "P"
    /\ els[3 * b + 2].is_coupling_beam /\ els[3 * b + 2].element_type_prefix = "S"
    /\ ~els[3 * b + 3].is_coupling_beam /\ els[3 * b + 3].element_type_prefix = "P"
    /\ \A n \in 1..3 : co(n)[1] = co(n)[4] /\ co(n)[2] = co(n)[3] /\ fle(co(n)[1], co(n)[2])
    /\ co(1)[1] = s
    /\ co(1)[2] = co(2)[1]
    /\ co(2)[2] = co(3)[1]
    /\ co(3)[2] = e

\* Each of the three elements of the bay is `third` long.
BayInThirds(els, b, along, third) ==
    LET co(n) == IF along = "x" THEN els[3 * b + n].x_coords ELSE els[3 * b + n].y_coords IN
    \A n \in 1..3 : fsub(co(n)[2], co(n)[1]) = third

\* Every bay of the layout, with its axis, its ends and its spacing.
Bays(c) ==
    {[b |-> iy * (c.nx - 1) + ix, along |-> "x", s |-> GridCoord(ix, c.sx),
      e |-> GridCoord(ix + 1, c.sx), spacing |-> c.sx] :
        ix \in 0..(c.nx - 2), iy \in 0..(c.ny - 1)}
    \cup
    {[b |-> (c.nx - 1) * c.ny + ix * (c.ny - 1) + iy, along |-> "y", s |-> GridCoord(iy, c.sy),
      e |-> GridCoord(iy + 1, c.sy), spacing |-> c.sy] :
        ix \in 0..(c.nx - 1), iy \in 0..(c.ny - 2)}

\* C16 as stated: for every grid line and every bay of span S the layout has
\* exactly three segments, pier, coupling beam, pier, each S/3 long,
\* contiguous and non-overlapping, covering the bay exactly.
C16_AsStated ==
    (comp = "layout" /\ fn_ret # NotCalled) =>
        /\ Len(fn_ret.elements) = 3 * Cardinality(Bays(fn_args))
        /\ \A bay \in Bays(fn_args) :
              /\ BayIsThreeSegments(fn_ret.elements, bay.b, bay.along, bay.s, bay.e)
              /\ BayInThirds(fn_ret.elements, bay.b, bay.along, fdiv(bay.spacing, Float(3)))

\* C16, amended: every bay has exactly three segments, pier, coupling beam,
\* pier, contiguous, non-overlapping and covering the bay exactly; on the
\* shipped 6.0 m grid each is exactly S/3 = 2.0 m long.
C16_ThreeSegmentsPerBay ==
    (comp = "layout" /\ fn_ret # NotCalled) =>
        /\ Len(fn_ret.elements) = 3 * Cardinality(Bays(fn_args))
        /\ \A bay \in Bays(fn_args) :
              /\ BayIsThreeSegments(fn_ret.elements, bay.b, bay.along, bay.s, bay.e)
              /\ bay.spacing = Float(6) =>
                    BayInThirds(fn_ret.elements, bay.b, bay.along, Float(2))

\* The layout of a grid of at least two bays each way at the 6.0 m spacing.
C16_Witness ==
    /\ comp = "layout" /\ fn_ret # NotCalled
    /\ fn_args.nx >= 3 /\ fn_args.ny >= 3
    /\ fn_args.sx = Float(6) /\ fn_args.sy = Float(6)
    /\ Len(fn_ret.elements) = 3 * ((fn_args.nx - 1) * fn_args.ny + fn_args.nx * (fn_args.ny - 1))

\* ------------------------------------------ geometry/frame_geometry.py

\* config_frame.py:38, :122-127, :131-132.
FRAME_SPACING == Float(6)
BEAM_LAYOUT == [MAIN_BEAMS_X |-> TRUE, MAIN_BEAMS_Y |-> TRUE, SECONDARY_BEAMS |-> TRUE]
SECONDARY_BEAM_SPACING == Float(3)
SECONDARY_BEAM_DIRECTION == "Y"

\* config_frame.py:37, :39, :118, :130: the shipped grid, number of stories,
\* placement of the columns and direction of the main beams.
ShippedFrame ==
    [nx |-> 5, ny |-> 3, stories |-> 10, pattern |-> "ALL_INTERSECTIONS", direction |-> "BOTH"]

\* int() of a float: truncation towards zero.
fint(a) ==
    IF a.e >= 0 THEN a.m * Pow2(a.e)
    ELSE IF a.m >= 0 THEN a.m \div Pow2(0 - a.e)
    ELSE 0 - ((0 - a.m) \div Pow2(0 - a.e))

\* One frame object the functions ask the application for: its kind, the
\* indices that make its name, its story.
FrameObject(kind, i, j, k, story) == [kind |-> kind, i |-> i, j |-> j, k |-> k, story |-> story]

\* The call name check_ret gets (frame_geometry.py:97, :152, :165, :226).
N_AddFrameByCoord == <<"Add", "Frame", "By", "Coord", "(", "NAME", ")">>

\* frame_geometry.py:51-54 and :67-71: every intersection, i outer, j inner.
AllIntersections(c) ==
    [n \in 1..(c.nx * c.ny) |-> <<(n - 1) \div c.ny, (n - 1) % c.ny>>]

\* frame_geometry.py:47-71: column_positions for the placement pattern.
ColumnPositions(c) ==
    IF c.pattern = "ALL_INTERSECTIONS" THEN AllIntersections(c)
    ELSE IF c.pattern = "PERIMETER_ONLY"
    THEN SelectSeq(AllIntersections(c),
                   LAMBDA p : p[1] = 0 \/ p[1] = c.nx - 1 \/ p[2] = 0 \/ p[2] = c.ny - 1)
    ELSE IF c.pattern = "CORNER_ONLY"
    THEN << <<0, 0>>, <<0, c.ny - 1>>, <<c.nx - 1, 0>>, <<c.nx - 1, c.ny - 1>> >>
    ELSE AllIntersections(c)

\* frame_geometry.py:85-99: the columns of one story, in the order of the
\* positions.
StoryColumns(c, story) ==
    LET column_positions == ColumnPositions(c) IN
    [n \in 1..Len(column_positions) |->
        FrameObject("COL", column_positions[n][1], column_positions[n][2], 0, story)]

\* frame_geometry.py:78-99: the loop over the stories, from story on.
RECURSIVE ColumnsFrom(_, _)
ColumnsFrom(c, story) ==
    IF story > c.stories THEN << >>
    ELSE StoryColumns(c, story) \o ColumnsFrom(c, story + 1)

\* Mutant: a beam at every grid line.
MainBeamsX_every_line(c, story) ==
    IF BEAM_LAYOUT.MAIN_BEAMS_X /\ c.direction \in {"X_ONLY", "BOTH"}
    THEN [n \in 1..(c.nx * c.ny) |->
            FrameObject("BEAM_X", (n - 1) % c.nx, (n - 1) \div c.nx, 0, story)]
    ELSE << >>

\* frame_geometry.py:141-154: the main beams along X of one story, j outer,
\* i inner.
MainBeamsX(c, story) ==
    IF BEAM_LAYOUT.MAIN_BEAMS_X /\ c.direction \in {"X_ONLY", "BOTH"}
    THEN [n \in 1..((c.nx - 1) * c.ny) |->
            FrameObject("BEAM_X", (n - 1) % (c.nx - 1), (n - 1) \div (c.nx - 1), 0, story)]
    ELSE << >>

\* frame_geometry.py:156-169: the main beams along Y of one story, i outer,
\* j inner.
MainBeamsY(c, story) ==
    IF BEAM_LAYOUT.MAIN_BEAMS_Y /\ c.direction \in {"Y_ONLY", "BOTH"}
    THEN [n \in 1..(c.nx * (c.ny - 1)) |->
            FrameObject("BEAM_Y", (n - 1) \div (c.ny - 1), (n - 1) % (c.ny - 1), 0, story)]
    ELSE << >>

\* frame_geometry.py:210-213 and :229-232: num_secondary of the bay (i, j).
NumSecondary(i, j) ==
    LET span_length ==
            IF SECONDARY_BEAM_DIRECTION = "Y"
            THEN fsub(GridCoord(i + 1, FRAME_SPACING), GridCoord(i, FRAME_SPACING))
            ELSE fsub(GridCoord(j + 1, FRAME_SPACING), GridCoord(j, FRAME_SPACING))
        n == fint(fdiv(span_length, SECONDARY_BEAM_SPACING))
    IN  IF n > 1 THEN n ELSE 1

\* frame_geometry.py:215-227 and :234-246: the secondary beams of one bay.
BaySecondary(i, j, story) ==
    IF SECONDARY_BEAM_DIRECTION \in {"X", "Y"}
    THEN [k \in 1..(NumSecondary(i, j) - 1) |-> FrameObject("SEC_BEAM", i, j, k, story)]
    ELSE << >>

\* _create_secondary_beams, frame_geometry.py:186-251: the bays from the
\* b-th on, i outer, j inner.
RECURSIVE SecondaryFrom(_, _, _)
SecondaryFrom(c, story, b) ==
    IF b >= (c.nx - 1) * (c.ny - 1) THEN << >>
    ELSE BaySecondary(b \div (c.ny - 1), b % (c.ny - 1), story)
            \o SecondaryFrom(c, story, b + 1)

\* frame_geometry.py:172-177.
SecondaryBeams(c, story) ==
    IF BEAM_LAYOUT.SECONDARY_BEAMS THEN SecondaryFrom(c, story, 0) ELSE << >>

\* frame_geometry.py:132-179: the loop over the stories, from story on.
RECURSIVE BeamsFrom(_, _)
BeamsFrom(c, story) ==
    IF story > c.stories THEN << >>
    ELSE MainBeamsX(c, story) \o MainBeamsY(c, story) \o SecondaryBeams(c, story)
            \o BeamsFrom(c, story + 1)

\* How the creation of the objects `plan`, in this order, ends: the first
\* failAt - 1 are created; the AddByCoord of object failAt has the outcome
\* o (failAt = 0 or beyond the last object: every call returns 0).  An
\* exception leaves the function; a status check_ret refuses ends the
\* process.
CreateFrames(sys, plan, failAt, o, fn) ==
    IF failAt \in 1..Len(plan) /\ o.raised
    THEN [fn |-> fn, ret |-> "raised", names |-> << >>, created |-> SubSeq(plan, 1, failAt - 1)]
    ELSE IF failAt \in 1..Len(plan) /\ check_ret(sys, IntRet(o.code), N_AddFrameByCoord, {0}).exit
    THEN [fn |-> fn, ret |-> "exit", names |-> << >>, created |-> SubSeq(plan, 1, failAt)]
    ELSE [fn |-> fn, ret |-> "names", names |-> plan, created |-> plan]

\* create_frame_columns, frame_geometry.py:25-103.
create_frame_columns(sys, c, failAt, o) ==
    IF ~ENABLE_FRAME_COLUMNS
    THEN [fn |-> "create_frame_columns", ret |-> "names", names |-> << >>, created |-> << >>]
    ELSE CreateFrames(sys, ColumnsFrom(c, 1), failAt, o, "create_frame_columns")

\* create_frame_beams, frame_geometry.py:106-183.
create_frame_beams(sys, c, failAt, o) ==
    IF ~ENABLE_FRAME_BEAMS
    THEN [fn |-> "create_frame_beams", ret |-> "names", names |-> << >>, created |-> << >>]
    ELSE CreateFrames(sys, BeamsFrom(c, 1), failAt, o, "create_frame_beams")

fg_CreateFrameColumns ==
    /\ comp = "frame_geometry" /\ proc = "running" /\ fn_ret = NotCalled
    /\ \E failAt \in 0..MaxFailAt, o \in ApiOutcomes :
        /\ fn_ret' = create_frame_columns(System, fn_args, failAt, o)
        /\ proc' = IF fn_ret'.ret = "exit" THEN "exited" ELSE proc
    /\ UNCHANGED <<System, comp, fn_args, restFn>>

fg_CreateFrameBeams ==
    /\ comp = "frame_geometry" /\ proc = "running" /\ fn_ret = NotCalled
    /\ \E failAt \in 0..MaxFailAt, o \in ApiOutcomes :
        /\ fn_ret' = create_frame_beams(System, fn_args, failAt, o)
        /\ proc' = IF fn_ret'.ret = "exit" THEN "exited" ELSE proc
    /\ UNCHANGED <<System, comp, fn_args, restFn>>

\* COLUMN_GRID_PATTERN and MAIN_BEAM_DIRECTION (config_frame.py:118-119,
\* :130), and a value the code does not name.
ColumnPatterns == {"ALL_INTERSECTIONS", "PERIMETER_ONLY", "CORNER_ONLY", "OTHER"}
BeamDirections == {"X_ONLY", "Y_ONLY", "BOTH", "OTHER"}

\* The configurations: the shipped one, and small grids that keep the
\* shipped placement of the columns or the shipped direction of the beams.
FrameConfigs ==
    {[nx |-> nx, ny |-> ny, stories |-> n, pattern |-> p, direction |-> d] :
        nx \in 1..MaxGridLines, ny \in 1..MaxGridLines, n \in 1..MaxStories,
        p \in ColumnPatterns, d \in {"BOTH"}}
    \cup
    {[nx |-> nx, ny |-> ny, stories |-> n, pattern |-> p, direction |-> d] :
        nx \in 1..MaxGridLines, ny \in 1..MaxGridLines, n \in 1..MaxStories,
        p \in {"ALL_INTERSECTIONS"}, d \in BeamDirections}
    \cup {ShippedFrame}

InitFrameGeometry ==
    /\ comp = "frame_geometry"
    /\ System = "loaded"
    /\ proc = "running"
    /\ IdleButFn
    /\ fn_args \in FrameConfigs
    /\ fn_ret = NotCalled

NextFrameGeometry == fg_CreateFrameColumns \/ fg_CreateFrameBeams

SpecFrameGeometry == InitFrameGeometry /\ [][NextFrameGeometry]_vars

\* --- the claim about the numbers of columns and main beams

\* The objects of the list of the given kinds at the given story.
CountAt(names, kinds, story) ==
    Cardinality({n \in 1..Len(names) : names[n].kind \in kinds /\ names[n].story = story})
CountAll(names, kinds) ==
    Cardinality({n \in 1..Len(names) : names[n].kind \in kinds})

\* C17: with columns at all intersections create_frame_columns returns NX*NY
\* columns per story, NX*NY*N in all, and with main beams in both directions
\* create_frame_beams returns (NX-1)*NY + NX*(NY-1) main beams per story,
\* secondary beams not counted; on the 5 x 3 grid of 10 stories 150 columns
\* and 220 main beams.
C17_ColumnAndMainBeamCounts ==
    (comp = "frame_geometry" /\ fn_ret # NotCalled /\ fn_ret.ret = "names") =>
        LET c == fn_args
            names == fn_ret.names IN
        /\ (fn_ret.fn = "create_frame_columns" /\ c.pattern = "ALL_INTERSECTIONS") =>
              /\ \A s \in 1..c.stories : CountAt(names, {"COL"}, s) = c.nx * c.ny
              /\ Len(names) = c.nx * c.ny * c.stories
              /\ c = ShippedFrame => Len(names) = 150
        /\ (fn_ret.fn = "create_frame_beams" /\ c.direction = "BOTH") =>
              /\ \A s \in 1..c.stories :
                    CountAt(names, {"BEAM_X", "BEAM_Y"}, s)
                        = (c.nx - 1) * c.ny + c.nx * (c.ny - 1)
              /\ CountAll(names, {"BEAM_X", "BEAM_Y"})
                        = ((c.nx - 1) * c.ny + c.nx * (c.ny - 1)) * c.stories
              /\ c = ShippedFrame => CountAll(names, {"BEAM_X", "BEAM_Y"}) = 220

\* The beams of the shipped 5 x 3 grid of 10 stories, main beams both ways,
\* were created: 22 main beams at a story and secondary beams besides.
C17_Witness ==
    /\ comp = "frame_geometry" /\ fn_ret # NotCalled /\ fn_ret.ret = "names"
    /\ fn_ret.fn = "create_frame_beams" /\ fn_args = ShippedFrame
    /\ CountAt(fn_ret.names, {"BEAM_X", "BEAM_Y"}, 10) = 22
    /\ CountAll(fn_ret.names, {"SEC_BEAM"}) > 0

\* The columns of the shipped grid were created, 15 at the top story.
C17_ColumnsWitness ==
    /\ comp = "frame_geometry" /\ fn_ret # NotCalled /\ fn_ret.ret = "names"
    /\ fn_ret.fn = "create_frame_columns" /\ fn_args = ShippedFrame
    /\ CountAt(fn_ret.names, {"COL"}, 10) = 15

\* --- the claim about the secondary beams

\* frame_geometry.py:214-217 and :233-236: the coordinate of the k-th
\* secondary beam of the bay (i, j): x1 + k * dy (y1 + k * dx).
SecondaryCoord(i, j, k) ==
    LET n == IF SECONDARY_BEAM_DIRECTION = "Y" THEN i ELSE j
        lo == GridCoord(n, FRAME_SPACING)
        span_length == fsub(GridCoord(n + 1, FRAME_SPACING), lo)
    IN  fadd(lo, fmul(Float(k), fdiv(span_length, Float(NumSecondary(i, j)))))

\* The secondary beams of the bay (i, j) of a story among the names.
BayBeams(names, i, j, story) ==
    {n \in 1..Len(names) : /\ names[n].kind = "SEC_BEAM" /\ names[n].story = story
                           /\ names[n].i = i /\ names[n].j = j}

\* Every secondary beam among the names lies strictly between the two grid
\* lines that bound its bay.
SecondaryInsideBay(names) ==
    \A n \in 1..Len(names) :
        names[n].kind = "SEC_BEAM" =>
            LET b == IF SECONDARY_BEAM_DIRECTION = "Y" THEN names[n].i ELSE names[n].j
                at == SecondaryCoord(names[n].i, names[n].j, names[n].k)
            IN  /\ flt(GridCoord(b, FRAME_SPACING), at)
                /\ flt(at, GridCoord(b + 1, FRAME_SPACING))

\* C23 as stated: when create_frame_beams has returned, every bay of every
\* story holds as many secondary beams as its span divided by the spacing,
\* rounded down and at least 1, each strictly inside the bay.
C23_AsStated ==
    (comp = "frame_geometry" /\ fn_ret # NotCalled /\ fn_ret.ret = "names"
        /\ fn_ret.fn = "create_frame_beams") =>
        /\ \A s \in 1..fn_args.stories, i \in 0..(fn_args.nx - 2), j \in 0..(fn_args.ny - 2) :
               Cardinality(BayBeams(fn_ret.names, i, j, s)) = NumSecondary(i, j)
        /\ SecondaryInsideBay(fn_ret.names)

\* What the code keeps: every bay holds one beam fewer than that number,
\* the beams at the inner division points of the bay, strictly inside it.
C23_OneFewerThanQuotient ==
    (comp = "frame_geometry" /\ fn_ret # NotCalled /\ fn_ret.ret = "names"
        /\ fn_ret.fn = "create_frame_beams") =>
        /\ \A s \in 1..fn_args.stories, i \in 0..(fn_args.nx - 2), j \in 0..(fn_args.ny - 2) :
               Cardinality(BayBeams(fn_ret.names, i, j, s)) = NumSecondary(i, j) - 1
        /\ SecondaryInsideBay(fn_ret.names)

\* --- the claim about the column statistics

\* get_frame_statistics, frame_geometry.py:390-436: columns_per_level and
\* total_columns under the configuration c.
get_frame_statistics(c) ==
    LET columns_per_level ==
            IF c.pattern = "ALL_INTERSECTIONS" THEN c.nx * c.ny
            ELSE IF c.pattern = "PERIMETER_ONLY" THEN 2 * (c.nx + c.ny - 2)
            ELSE IF c.pattern = "CORNER_ONLY" THEN 4
            ELSE c.nx * c.ny
    IN  [columns_per_level |-> columns_per_level,
         total_columns |-> columns_per_level * c.stories]

\* The grid positions that got a column at a story, among the names.
ColumnPlaces(names, story) ==
    {<<names[n].i, names[n].j>> :
        n \in {m \in 1..Len(names) : names[m].kind = "COL" /\ names[m].story = story}}

\* C29 as stated: for every grid of one line or more in each direction
\* and each of the three patterns, the columns per story that
\* get_frame_statistics reports are as many as the distinct grid positions
\* at which create_frame_columns has created a column in a story.
C29_AsStated ==
    (comp = "frame_geometry" /\ fn_ret # NotCalled /\ fn_ret.ret = "names"
        /\ fn_ret.fn = "create_frame_columns"
        /\ fn_args.pattern \in {"ALL_INTERSECTIONS", "PERIMETER_ONLY", "CORNER_ONLY"}) =>
        \A s \in 1..fn_args.stories :
            get_frame_statistics(fn_args).columns_per_level
                = Cardinality(ColumnPlaces(fn_ret.names, s))

\* What the code keeps: the two agree on every grid of two lines or more
\* in each direction.
C29_AgreeFromTwoLines ==
    (comp = "frame_geometry" /\ fn_ret # NotCalled /\ fn_ret.ret = "names"
        /\ fn_ret.fn = "create_frame_columns"
        /\ fn_args.pattern \in {"ALL_INTERSECTIONS", "PERIMETER_ONLY", "CORNER_ONLY"}
        /\ fn_args.nx >= 2 /\ fn_args.ny >= 2) =>
        \A s \in 1..fn_args.stories :
            get_frame_statistics(fn_args).columns_per_level
                = Cardinality(ColumnPlaces(fn_ret.names, s))

\* ---------------------------------------------- results/drift_results.py

\* config_frame.py:199 and config_shear_wall.py:168: DRIFT_LIMIT_PERMIL = 1.0.
DRIFT_LIMIT_PERMIL == Float(1)

\* dir_raw.upper().strip() over the direction strings of the model
\* (drift_results.py:140).
upper_strip(d) ==
    CASE d = "u2 " -> "U2"
      [] d = "x" -> "X"
      [] OTHER -> d

\* drift_results.py:140-146.
DirKey(dir_raw) ==
    IF upper_strip(dir_raw) \in {"U1", "UX", "X"} THEN "X"
    ELSE IF upper_strip(dir_raw) \in {"U2", "UY", "Y"} THEN "Y"
    ELSE "?"

\* drift_results.py:137: drift_permil = drift_rad * 1000.0.
DriftPermil(drift_rad) == fmul(drift_rad, Float(1000))

\* drift_results.py:148-161: the record of row i of the answer of the
\* application (the display field rounded to four decimals is left out).
DriftRecord(row) ==
    [story |-> row.story, load_case |-> row.load_case, direction |-> DirKey(row.direction),
     drift_rad |-> row.drift]

\* drift_results.py:134: max_drift before the loop; idx 0 stands for None
\* (rows are counted from 1).
NoMaxDrift == [val |-> Zero, idx |-> 0]

\* Mutant: the signed values are compared.
UpdateMax_signed(stored, drift_permil, i) ==
    IF flt(stored.val, drift_permil) THEN [val |-> drift_permil, idx |-> i] ELSE stored

\* drift_results.py:165-169: the update of max_drift[dir_key] by row i.
UpdateMax(stored, drift_permil, i) ==
    IF flt(fabs(stored.val), fabs(drift_permil))
    THEN [val |-> drift_permil, idx |-> i]
    ELSE stored

\* drift_results.py:136-169: max_drift[axis] after the first n rows.
RECURSIVE MaxDrift(_, _, _)
MaxDrift(rows, axis, n) ==
    IF n = 0 THEN NoMaxDrift
    ELSE IF DirKey(rows[n].direction) = axis
    THEN UpdateMax(MaxDrift(rows, axis, n - 1), DriftPermil(rows[n].drift), n)
    ELSE MaxDrift(rows, axis, n - 1)

\* max_drift_results[...] = None.
NoInfo ==
    [none |-> TRUE, value_permil |-> Zero, abs_value_permil |-> Zero, story |-> << >>,
     load_case |-> "", is_ok |-> FALSE]

\* drift_results.py:182-207: the entry max_drift_<axis> of the result.
MaxDriftInfo(rows, axis) ==
    LET md == MaxDrift(rows, axis, Len(rows)) IN
    IF md.idx = 0 \/ fabs(md.val) = Zero THEN NoInfo
    ELSE [none |-> FALSE, value_permil |-> md.val, abs_value_permil |-> fabs(md.val),
          story |-> DriftRecord(rows[md.idx]).story,
          load_case |-> DriftRecord(rows[md.idx]).load_case,
          is_ok |-> fle(fabs(md.val), DRIFT_LIMIT_PERMIL)]

\* drift_results.py:220-223: all(info["is_ok"] for info in ... if info is
\* not None).
AllOk(infos) == \A info \in infos : ~info.none => info.is_ok

\* drift_results.py:224: the two status strings, in English.
OverallStatus(all_ok) == IF all_ok THEN "requirements met" ELSE "limit exceeded"

\* How a call ends without a result.
DriftStopped(how) ==
    [fn |-> "extract_story_drifts", ret |-> how, records |-> << >>, max_drift_X |-> NoInfo,
     max_drift_Y |-> NoInfo, overall_status |-> "absent", error |-> "absent"]

\* extract_story_drifts, drift_results.py:13-229.  setup is the outcome of
\* the calls that select the output (the first that does not return 0, or
\* the last), o that of StoryDrifts, rows its answer.
extract_story_drifts(sys, rows, setup, o) ==
    IF setup.raised THEN DriftStopped("raised")
    ELSE IF check_ret(sys, IntRet(setup.code), <<"Setup", ".", "Drift", "(", "Relative", ")">>,
                      {0, 1}).exit
    THEN DriftStopped("exit")
    ELSE IF o.raised THEN DriftStopped("raised")
    ELSE IF check_ret(sys, IntRet(o.code), N_ResultsStoryDrifts, {0, 1}).exit
    THEN DriftStopped("exit")
    ELSE IF Len(rows) = 0
    THEN [fn |-> "extract_story_drifts", ret |-> "result", records |-> << >>,
          max_drift_X |-> NoInfo, max_drift_Y |-> NoInfo, overall_status |-> "absent",
          error |-> "no drift data"]
    ELSE [fn |-> "extract_story_drifts", ret |-> "result",
          records |-> [i \in 1..Len(rows) |-> DriftRecord(rows[i])],
          max_drift_X |-> MaxDriftInfo(rows, "X"),
          max_drift_Y |-> MaxDriftInfo(rows, "Y"),
          overall_status |->
              OverallStatus(AllOk({MaxDriftInfo(rows, "X"), MaxDriftInfo(rows, "Y")})),
          error |-> "absent"]

dr_ExtractStoryDrifts ==
    /\ comp = "drift" /\ proc = "running" /\ fn_ret = NotCalled
    /\ \E setup \in ApiOutcomes :
         \E o \in IF setup = Returns(0) THEN ApiOutcomes ELSE {Returns(0)} :
            /\ fn_ret' = extract_story_drifts(System, fn_args.rows, setup, o)
            /\ proc' = IF fn_ret'.ret = "exit" THEN "exited" ELSE proc
    /\ UNCHANGED <<System, comp, fn_args, restFn>>

\* The raw drifts of the rows, in radians: none, 0.8 per mille, and 1.2 per
\* mille of either sign.
RawDrifts == {Zero, Dec(8, 10000), Dec(12, 10000), Dec(-12, 10000)}

\* The direction strings of the rows.
RawDirections == {"X", "u2 ", "UZ"}

\* The rows StoryDrifts may answer with: row i is of story i.
DriftRows(n) ==
    {[i \in 1..n |-> [story |-> <<"Story", i>>, load_case |-> IF i % 2 = 1 THEN "RS-X" ELSE "RS-Y",
                      direction |-> f[i][1], drift |-> f[i][2]]] :
        f \in [1..n -> RawDirections \X RawDrifts]}

InitDrift ==
    /\ comp = "drift"
    /\ System = "loaded"
    /\ proc = "running"
    /\ IdleButFn
    /\ \E n \in 0..MaxRecords : fn_args \in {[rows |-> r] : r \in DriftRows(n)}
    /\ fn_ret = NotCalled

NextDrift == dr_ExtractStoryDrifts

SpecDrift == InitDrift /\ [][NextDrift]_vars

\* --- the claims about the reported drifts

\* The rows of the direction.
RowsOf(rows, axis) == {i \in 1..Len(rows) : DirKey(rows[i].direction) = axis}

\* The entry reports a row of the direction whose per-mille value, the raw
\* value times 1000, is the largest in absolute value, with the story and
\* the load case of that row, and is flagged by the limit.
ReportsLargest(info, rows, axis) ==
    /\ ~info.none
    /\ \E k \in RowsOf(rows, axis) :
          /\ info.value_permil = fmul(rows[k].drift, Float(1000))
          /\ info.story = rows[k].story /\ info.load_case = rows[k].load_case
          /\ \A j \in RowsOf(rows, axis) :
                fle(fabs(fmul(rows[j].drift, Float(1000))), fabs(info.value_permil))
    /\ info.abs_value_permil = fabs(info.value_permil)
    /\ info.is_ok <=> fle(info.abs_value_permil, Float(1))
    /\ info.abs_value_permil = fmul(Dec(12, 10000), Float(1000)) => ~info.is_ok
    /\ info.abs_value_permil = fmul(Dec(8, 10000), Float(1000)) => info.is_ok

\* C18: for each direction with a non-zero record the reported maximum is
\* the record of the direction with the largest absolute per-mille value
\* (raw times 1000), with its story and load case, compliant exactly when the
\* absolute value is within the limit: 1.2 against 1.0 is not, 0.8 is.
C18_ReportsLargestDrift ==
    (comp = "drift" /\ fn_ret # NotCalled /\ fn_ret.ret = "result") =>
        /\ (\E i \in RowsOf(fn_args.rows, "X") : fn_args.rows[i].drift # Zero) =>
              ReportsLargest(fn_ret.max_drift_X, fn_args.rows, "X")
        /\ (\E i \in RowsOf(fn_args.rows, "Y") : fn_args.rows[i].drift # Zero) =>
              ReportsLargest(fn_ret.max_drift_Y, fn_args.rows, "Y")

\* Two records of one direction, the second the larger in absolute value and
\* negative, 1.2 per mille: it is the one reported, as exceeding the limit.
C18_Witness ==
    /\ comp = "drift" /\ fn_ret # NotCalled /\ fn_ret.ret = "result"
    /\ Len(fn_args.rows) >= 2
    /\ RowsOf(fn_args.rows, "Y") = {1, 2}
    /\ fn_args.rows[1].drift = Dec(8, 10000) /\ fn_args.rows[2].drift = Dec(-12, 10000)
    /\ fn_ret.max_drift_Y.story = <<"Story", 2>> /\ ~fn_ret.max_drift_Y.is_ok

\* C19 as stated: the overall status is 'pass' if and only if the flag of
\* the X direction and the flag of the Y direction are both pass.
C19_AsStated ==
    (comp = "drift" /\ fn_ret # NotCalled /\ fn_ret.ret = "result"
        /\ fn_ret.overall_status # "absent") =>
        (fn_ret.overall_status = "requirements met"
            <=> /\ ~fn_ret.max_drift_X.none /\ fn_ret.max_drift_X.is_ok
                /\ ~fn_ret.max_drift_Y.none /\ fn_ret.max_drift_Y.is_ok)

\* What the code does keep: when both directions are reported the overall
\* status is the conjunction of their flags, and a failing flag of either
\* direction always fails the whole.
C19_AndOfReportedFlags ==
    (comp = "drift" /\ fn_ret # NotCalled /\ fn_ret.ret = "result"
        /\ fn_ret.overall_status # "absent") =>
        /\ (~fn_ret.max_drift_X.none /\ ~fn_ret.max_drift_Y.none) =>
              (fn_ret.overall_status = "requirements met"
                  <=> fn_ret.max_drift_X.is_ok /\ fn_ret.max_drift_Y.is_ok)
        /\ (~fn_ret.max_drift_X.none /\ ~fn_ret.max_drift_X.is_ok) =>
              fn_ret.overall_status = "limit exceeded"
        /\ (~fn_ret.max_drift_Y.none /\ ~fn_ret.max_drift_Y.is_ok) =>
              fn_ret.overall_status = "limit exceeded"

\* ------------------------------------------- loads/response_spectrum.py

\* config_frame.py:176 and config_shear_wall.py:152: GRAVITY_ACCEL = 9.80665.
GRAVITY_ACCEL == Dec(980665, 100000)

\* response_spectrum.py:29-31.
rs_gamma(zeta) ==
    fadd(Dec(9, 10), fdiv(fsub(Dec(5, 100), zeta), fadd(Dec(3, 10), fmul(Float(6), zeta))))
rs_eta1(zeta) ==
    fmax(Zero, fadd(Dec(2, 100),
                    fdiv(fsub(Dec(5, 100), zeta), fadd(Float(4), fmul(Float(32), zeta)))))
rs_eta2(zeta) ==
    fmax(Dec(55, 100),
         fadd(Float(1), fdiv(fsub(Dec(5, 100), zeta), fadd(Dec(8, 100), fmul(Dec(16, 10), zeta)))))

\* response_spectrum.py:35-50: the branch the period falls in.
rs_branch(T, Tg) ==
    IF flt(T, Zero) THEN "T < 0"
    ELSE IF T = Zero THEN "T == 0"
    ELSE IF fle(T, Dec(1, 10)) THEN "T <= 0.1"
    ELSE IF fle(T, Tg) THEN "T <= Tg"
    ELSE IF fle(T, fmul(Float(5), Tg)) THEN "T <= 5Tg"
    ELSE IF fle(T, Float(6)) THEN "T <= 6"
    ELSE "T > 6"

\* response_spectrum.py:35-50: current_alpha_coeff before the two max().
\* pow is the value of the one power the branch computes, (Tg / T) ** gamma
\* or 0.2 ** gamma.
rs_shape(T, zeta, alpha_max, Tg, pow) ==
    LET eta1 == rs_eta1(zeta)
        eta2 == rs_eta2(zeta)
        b == rs_branch(T, Tg) IN
    IF b = "T < 0" THEN Zero
    ELSE IF b = "T == 0" THEN fmul(Dec(45, 100), alpha_max)
    ELSE IF b = "T <= 0.1"
    THEN fmin(fmul(fadd(Dec(45, 100),
                        fmul(fmul(Float(10), fsub(eta2, Dec(45, 100))), T)), alpha_max),
              fmul(eta2, alpha_max))
    ELSE IF b = "T <= Tg" THEN fmul(eta2, alpha_max)
    ELSE IF b = "T <= 5Tg" THEN fmul(fmul(pow, eta2), alpha_max)
    ELSE IF b = "T <= 6"
    THEN fmul(fsub(fmul(pow, eta2), fmul(eta1, fsub(T, fmul(Float(5), Tg)))), alpha_max)
    ELSE fmul(fsub(fmul(pow, eta2), fmul(eta1, fsub(Float(6), fmul(Float(5), Tg)))), alpha_max)

\* Mutant: only the clamp at zero.
rs_floor_zero_only(coeff, alpha_max) == fmax(Zero, coeff)

\* response_spectrum.py:52-53.
rs_floor(coeff, alpha_max) == fmax(Zero, fmax(coeff, fmul(Dec(20, 100), alpha_max)))

\* china_response_spectrum, response_spectrum.py:14-55: the coefficient
\* before and after the two max(), and the value returned.
china_response_spectrum(T, zeta, alpha_max, Tg, g, pow) ==
    [fn |-> "china_response_spectrum",
     branch |-> rs_branch(T, Tg),
     shape |-> rs_shape(T, zeta, alpha_max, Tg, pow),
     current_alpha_coeff |-> rs_floor(rs_shape(T, zeta, alpha_max, Tg, pow), alpha_max),
     value |-> fmul(rs_floor(rs_shape(T, zeta, alpha_max, Tg, pow), alpha_max), g)]

\* The values x ** y may have in the model: the power is not computed, the
\* function is checked for whatever it yields, from nothing to more than a
\* power of a base below one can be.
PowValues == {Zero, Dec(1, 10), Dec(1, 4), Dec(1, 2), Float(1), Float(2)}

\* Periods in every branch, damping ratios (0.05 the shipped one), maximum
\* coefficients (0.08 the shipped one) and site periods (0.65 the shipped
\* one; with 1.5, 5 Tg lies beyond 6 s).
Periods ==
    {Dec(-1, 2), Zero, Dec(5, 100), Dec(1, 10), Dec(3, 10), Float(1), Float(2), Float(4),
     Float(6), Float(8)}
DampingRatios == {Dec(2, 100), Dec(5, 100), Dec(2, 10)}
AlphaMaxes == {Dec(8, 100), Dec(5, 10)}
SitePeriods == {Dec(35, 100), Dec(65, 100), Dec(15, 10)}

rs_ChinaResponseSpectrum ==
    /\ comp = "spectrum" /\ fn_ret = NotCalled
    /\ \E pow \in PowValues :
        fn_ret' = china_response_spectrum(fn_args.T, fn_args.zeta, fn_args.alpha_max,
                                          fn_args.Tg, GRAVITY_ACCEL, pow)
    /\ UNCHANGED <<System, proc, comp, fn_args, restFn>>

InitSpectrum ==
    /\ comp = "spectrum"
    /\ System = "loaded"
    /\ proc = "running"
    /\ IdleButFn
    /\ fn_args \in {[T |-> T, zeta |-> z, alpha_max |-> a, Tg |-> Tg] :
                      T \in Periods, z \in DampingRatios, a \in AlphaMaxes, Tg \in SitePeriods}
    /\ fn_ret = NotCalled

NextSpectrum == rs_ChinaResponseSpectrum

SpecSpectrum == InitSpectrum /\ [][NextSpectrum]_vars

\* C20: for every period T >= 0, damping ratio and site period, in every
\* branch, the coefficient china_response_spectrum computes is not less than
\* 0.20 * alpha_max and not negative (nor is the value it returns).
C20_CoefficientHasFloor ==
    (comp = "spectrum" /\ fn_ret # NotCalled /\ fle(Zero, fn_args.T)) =>
        /\ fle(fmul(Dec(20, 100), fn_args.alpha_max), fn_ret.current_alpha_coeff)
        /\ fle(Zero, fn_ret.current_alpha_coeff)
        /\ fle(Zero, fn_ret.value)

\* A period on the descending line beyond 5 Tg where the shape function
\* falls below the floor, and the floor is what the function computes.
C20_Witness ==
    /\ comp = "spectrum" /\ fn_ret # NotCalled /\ fle(Zero, fn_args.T)
    /\ fn_ret.branch = "T <= 6"
    /\ flt(fn_ret.shape, fmul(Dec(20, 100), fn_args.alpha_max))
    /\ fn_ret.current_alpha_coeff = fmul(Dec(20, 100), fn_args.alpha_max)

\* ------------------------ geometry/shear_wall_geometry.py, step by step

\* The grid lines per direction of the plans the shear-wall run is drawn
\* from.
MaxPlanLines == 2

N_SetSpandrel == <<"Set", "Spandrel", "(", "S_HCB", ")">>

\* One call made on the application: the interface, the object the call is
\* about (base name, story, mesh cell; 0 where the call has none), the
\* label passed (its prefix and the base name make the label; "" for none),
\* and whether the call came back with a code the caller accepted.
ApiCall(api, prefix, base, story, cell, ok) ==
    [api |-> api, prefix |-> prefix, base |-> base, story |-> story, cell |-> cell, ok |-> ok]

\* common.py:111: label = f"{prefix}_{base_name_template}", as the pair
\* of its parts.
RegisteredLabel(el_def) == [prefix |-> el_def.element_type_prefix, base |-> el_def.base_name]

\* A mutant of the per-story label: the base name without the prefix.
story_instance_label_no_prefix(el_def) == [prefix |-> "", base |-> el_def.base_name]

\* common.py:47-51, get_story_instance_details: pier_spandrel_definition_name.
story_instance_label(el_def) ==
    [prefix |-> el_def.element_type_prefix, base |-> el_def.base_name]

\* mesh_utils.py:135-137, 172: the cells of one element; none when the
\* coordinates do not validate.
PanelCount(el_def, mesh) ==
    IF validate_coordinates(el_def.x_coords, el_def.y_coords, <<Zero, Zero, Zero, Zero>>, TRUE)
    THEN mesh[1] * mesh[2] ELSE 0

\* shear_wall_geometry.py:136-141: the mesh of a coupling beam, of a wall.
MeshOf(c, el_def) == IF el_def.is_coupling_beam THEN c.cb_mesh ELSE c.wall_mesh

\* shear_wall_geometry.py:203-204: the bays of one story.
SlabBays(c) == (c.nx - 1) * (c.ny - 1)

\* shear_wall_geometry.py:216: f"SLAB_X{ix}_Y{iy}" of the b-th bay (from 1),
\* ix outer, iy inner.
SlabBase(c, b) == <<"SLAB", (b - 1) \div (c.ny - 1), (b - 1) % (c.ny - 1)>>

\* The run has stopped: returned, an exception is going up, or the
\* process has exited.
sg_Stop(st, how, log) == [st EXCEPT !.pc = how, !.log = log]

\* shear_wall_geometry.py:90-108: the function is entered and the layout
\* generated.
sg_Enter ==
    /\ comp = "wall_geometry" /\ proc = "running" /\ fn_ret = NotCalled
    /\ fn_ret' = [fn |-> "create_shear_wall_structural_geometry", pc |-> "labels",
                  layout_defs |-> generate_shear_wall_planar_layout(fn_args),
                  defined_piers |-> {}, defined_spandrels |-> {},
                  k |-> 1, story |-> 1, cell |-> 1, log |-> << >>]
    /\ UNCHANGED <<System, proc, comp, fn_args, restFn>>

\* common.py:108-122: one turn of the loop of create_pier_spandrel_labels.
sg_Label ==
    /\ comp = "wall_geometry" /\ proc = "running" /\ fn_ret # NotCalled
    /\ fn_ret.pc = "labels" /\ fn_ret.k <= Len(fn_ret.layout_defs)
    /\ LET st == fn_ret
           el_def == st.layout_defs[st.k]
           label == RegisteredLabel(el_def)
           spandrel == el_def.is_coupling_beam /\ label \notin st.defined_spandrels
           pier == ~el_def.is_coupling_beam /\ label \notin st.defined_piers
       IN  IF ~spandrel /\ ~pier
           THEN /\ fn_ret' = [st EXCEPT !.k = st.k + 1]
                /\ UNCHANGED proc
           ELSE \E o \in ApiOutcomes :
                LET api == IF spandrel THEN "SpandrelLabel.SetSpandrel" ELSE "PierLabel.SetPier"
                    r == check_ret(System, IntRet(o.code),
                                   IF spandrel THEN N_SetSpandrel ELSE N_SetPier, {0, 1})
                    call(ok) == ApiCall(api, label.prefix, label.base, 0, 0, ok)
                IN  IF o.raised
                    THEN /\ fn_ret' = sg_Stop(st, "raised", Append(st.log, call(FALSE)))
                         /\ UNCHANGED proc
                    ELSE IF r.exit
                    THEN /\ fn_ret' = sg_Stop(st, "exit", Append(st.log, call(FALSE)))
                         /\ proc' = "exited"
                    ELSE /\ fn_ret' =
                              [st EXCEPT !.k = st.k + 1,
                                         !.log = Append(st.log, call(TRUE)),
                                         !.defined_spandrels =
                                             IF spandrel THEN @ \cup {label} ELSE @,
                                         !.defined_piers =
                                             IF pier THEN @ \cup {label} ELSE @]
                         /\ UNCHANGED proc
    /\ UNCHANGED <<System, comp, fn_args, restFn>>

\* common.py:124 and shear_wall_geometry.py:111-117: the labels are done
\* and the loop over the stories begins.
sg_LabelsDone ==
    /\ comp = "wall_geometry" /\ proc = "running" /\ fn_ret # NotCalled
    /\ fn_ret.pc = "labels" /\ fn_ret.k > Len(fn_ret.layout_defs)
    /\ fn_ret' = [fn_ret EXCEPT !.pc = "elements", !.story = 1, !.k = 1, !.cell = 1]
    /\ UNCHANGED <<System, proc, comp, fn_args, restFn>>

\* mesh_utils.py:172-194: one cell of create_meshed_element: the panel is
\* added, then given the element's pier or spandrel label.
sg_Panel ==
    /\ comp = "wall_geometry" /\ proc = "running" /\ fn_ret # NotCalled
    /\ fn_ret.pc = "elements" /\ fn_ret.story <= fn_args.stories
    /\ fn_ret.k <= Len(fn_ret.layout_defs)
    /\ fn_ret.cell <= PanelCount(fn_ret.layout_defs[fn_ret.k],
                                 MeshOf(fn_args, fn_ret.layout_defs[fn_ret.k]))
    /\ LET st == fn_ret
           el_def == st.layout_defs[st.k]
           label == story_instance_label(el_def)
           add(ok) == ApiCall("AreaObj.AddByCoord", "", el_def.base_name, st.story, st.cell, ok)
           tag(ok) == ApiCall(IF el_def.is_coupling_beam THEN "AreaObj.SetSpandrel"
                                                          ELSE "AreaObj.SetPier",
                              label.prefix, label.base, st.story, st.cell, ok)
       IN  \E o1 \in ApiOutcomes, o2 \in ApiOutcomes :
           LET r1 == check_ret(System, IntRet(o1.code), N_AddByCoord, {0})
               r2 == check_ret(System, IntRet(o2.code),
                               IF el_def.is_coupling_beam THEN N_SetSpandrel ELSE N_SetPier, {0})
           IN  IF o1.raised
               THEN /\ fn_ret' = sg_Stop(st, "raised", Append(st.log, add(FALSE)))
                    /\ UNCHANGED proc
               ELSE IF r1.exit
               THEN /\ fn_ret' = sg_Stop(st, "exit", Append(st.log, add(FALSE)))
                    /\ proc' = "exited"
               ELSE IF o2.raised
               THEN /\ fn_ret' = sg_Stop(st, "raised", st.log \o <<add(TRUE), tag(FALSE)>>)
                    /\ UNCHANGED proc
               ELSE IF r2.exit
               THEN /\ fn_ret' = sg_Stop(st, "exit", st.log \o <<add(TRUE), tag(FALSE)>>)
                    /\ proc' = "exited"
               ELSE /\ fn_ret' = [st EXCEPT !.cell = st.cell + 1,
                                            !.log = st.log \o <<add(TRUE), tag(TRUE)>>]
                    /\ UNCHANGED proc
    /\ UNCHANGED <<System, comp, fn_args, restFn>>

\* mesh_utils.py:196 and shear_wall_geometry.py:119-167: the element's
\* cells are done (or it had none) and the next element begins.
sg_ElementDone ==
    /\ comp = "wall_geometry" /\ proc = "running" /\ fn_ret # NotCalled
    /\ fn_ret.pc = "elements" /\ fn_ret.story <= fn_args.stories
    /\ fn_ret.k <= Len(fn_ret.layout_defs)
    /\ fn_ret.cell > PanelCount(fn_ret.layout_defs[fn_ret.k],
                                MeshOf(fn_args, fn_ret.layout_defs[fn_ret.k]))
    /\ fn_ret' = [fn_ret EXCEPT !.k = fn_ret.k + 1, !.cell = 1]
    /\ UNCHANGED <<System, proc, comp, fn_args, restFn>>

\* shear_wall_geometry.py:111: the story's elements are done.
sg_StoryDone ==
    /\ comp = "wall_geometry" /\ proc = "running" /\ fn_ret # NotCalled
    /\ fn_ret.pc = "elements" /\ fn_ret.story <= fn_args.stories
    /\ fn_ret.k > Len(fn_ret.layout_defs)
    /\ fn_ret' = [fn_ret EXCEPT !.story = fn_ret.story + 1, !.k = 1, !.cell = 1]
    /\ UNCHANGED <<System, proc, comp, fn_args, restFn>>

\* shear_wall_geometry.py:170: every story is done; create_shear_wall_slabs
\* begins.
sg_ElementsDone ==
    /\ comp = "wall_geometry" /\ proc = "running" /\ fn_ret # NotCalled
    /\ fn_ret.pc = "elements" /\ fn_ret.story > fn_args.stories
    /\ fn_ret' = [fn_ret EXCEPT !.pc = "slabs", !.story = 1, !.k = 1, !.cell = 1]
    /\ UNCHANGED <<System, proc, comp, fn_args, restFn>>

\* mesh_utils.py:236-254: one cell of create_meshed_slab: the panel is
\* added, then assigned the diaphragm "SRD".
sg_SlabPanel ==
    /\ comp = "wall_geometry" /\ proc = "running" /\ fn_ret # NotCalled
    /\ fn_ret.pc = "slabs" /\ fn_ret.story <= fn_args.stories
    /\ fn_ret.k <= SlabBays(fn_args)
    /\ fn_ret.cell <= fn_args.slab_mesh[1] * fn_args.slab_mesh[2]
    /\ LET st == fn_ret
           base == SlabBase(fn_args, st.k)
           add(ok) == ApiCall("AreaObj.AddByCoord", "", base, st.story, st.cell, ok)
           srd(ok) == ApiCall("AreaObj.SetDiaphragm", "SRD", base, st.story, st.cell, ok)
       IN  \E o1 \in ApiOutcomes, o2 \in ApiOutcomes :
           LET r1 == check_ret(System, IntRet(o1.code), N_AddByCoord, {0})
               r2 == check_ret(System, IntRet(o2.code), N_SetDiaphragm, {0})
           IN  IF o1.raised
               THEN /\ fn_ret' = sg_Stop(st, "raised", Append(st.log, add(FALSE)))
                    /\ UNCHANGED proc
               ELSE IF r1.exit
               THEN /\ fn_ret' = sg_Stop(st, "exit", Append(st.log, add(FALSE)))
                    /\ proc' = "exited"
               ELSE IF o2.raised
               THEN /\ fn_ret' = sg_Stop(st, "raised", st.log \o <<add(TRUE), srd(FALSE)>>)
                    /\ UNCHANGED proc
               ELSE IF r2.exit
               THEN /\ fn_ret' = sg_Stop(st, "exit", st.log \o <<add(TRUE), srd(FALSE)>>)
                    /\ proc' = "exited"
               ELSE /\ fn_ret' = [st EXCEPT !.cell = st.cell + 1,
                                            !.log = st.log \o <<add(TRUE), srd(TRUE)>>]
                    /\ UNCHANGED proc
    /\ UNCHANGED <<System, comp, fn_args, restFn>>

\* mesh_utils.py:256 and shear_wall_geometry.py:203-226: the bay's cells are
\* done; after the last bay of a story, the next story.
sg_SlabBayDone ==
    /\ comp = "wall_geometry" /\ proc = "running" /\ fn_ret # NotCalled
    /\ fn_ret.pc = "slabs" /\ fn_ret.story <= fn_args.stories
    /\ fn_ret.k <= SlabBays(fn_args)
    /\ fn_ret.cell > fn_args.slab_mesh[1] * fn_args.slab_mesh[2]
    /\ fn_ret' = [fn_ret EXCEPT !.k = fn_ret.k + 1, !.cell = 1]
    /\ UNCHANGED <<System, proc, comp, fn_args, restFn>>

sg_SlabStoryDone ==
    /\ comp = "wall_geometry" /\ proc = "running" /\ fn_ret # NotCalled
    /\ fn_ret.pc = "slabs" /\ fn_ret.story <= fn_args.stories
    /\ fn_ret.k > SlabBays(fn_args)
    /\ fn_ret' = [fn_ret EXCEPT !.story = fn_ret.story + 1, !.k = 1, !.cell = 1]
    /\ UNCHANGED <<System, proc, comp, fn_args, restFn>>

\* shear_wall_geometry.py:172-187: the function returns.
sg_Return ==
    /\ comp = "wall_geometry" /\ proc = "running" /\ fn_ret # NotCalled
    /\ fn_ret.pc = "slabs" /\ fn_ret.story > fn_args.stories
    /\ fn_ret' = [fn_ret EXCEPT !.pc = "returned"]
    /\ UNCHANGED <<System, proc, comp, fn_args, restFn>>

\* The meshes a run is drawn with: one cell per element, and two by two
\* for the walls with two cells for beams and slabs.
MeshConfigs ==
    { [wall_mesh |-> <<1, 1>>, cb_mesh |-> <<1, 1>>, slab_mesh |-> <<1, 1>>],
      [wall_mesh |-> <<2, 2>>, cb_mesh |-> <<2, 1>>, slab_mesh |-> <<1, 2>>] }

InitWallGeometry ==
    /\ comp = "wall_geometry"
    /\ System = "loaded"
    /\ proc = "running"
    /\ IdleButFn
    /\ fn_args \in {[nx |-> nx, ny |-> ny, sx |-> Float(6), sy |-> Float(6),
                     stories |-> n, wall_mesh |-> m.wall_mesh, cb_mesh |-> m.cb_mesh,
                     slab_mesh |-> m.slab_mesh] :
                      nx \in 1..MaxPlanLines, ny \in 1..MaxPlanLines,
                      n \in 1..MaxStories, m \in MeshConfigs}
    /\ fn_ret = NotCalled

NextWallGeometry ==
    \/ sg_Enter
    \/ sg_Label
    \/ sg_LabelsDone
    \/ sg_Panel
    \/ sg_ElementDone
    \/ sg_StoryDone
    \/ sg_ElementsDone
    \/ sg_SlabPanel
    \/ sg_SlabBayDone
    \/ sg_SlabStoryDone
    \/ sg_Return

SpecWallGeometry == InitWallGeometry /\ [][NextWallGeometry]_vars

\* --- the claim about the labels

sg_Running == comp = "wall_geometry" /\ fn_ret # NotCalled

sg_Idx(apis) == {i \in 1..Len(fn_ret.log) : fn_ret.log[i].api \in apis}

sg_Registrations == sg_Idx({"PierLabel.SetPier", "SpandrelLabel.SetSpandrel"})

\* The label of log entry i was registered, accepted, with the label
\* interface `api`.
sg_RegisteredWith(api, i) ==
    \E r \in sg_Idx({api}) :
        /\ fn_ret.log[r].ok
        /\ fn_ret.log[r].prefix = fn_ret.log[i].prefix
        /\ fn_ret.log[r].base = fn_ret.log[i].base

\* C22: in a run of the shear-wall geometry, every distinct label is
\* registered exactly once (no label twice, and once the registration loop
\* is over, every element's label once, piers with the pier interface and
\* coupling beams with the spandrel interface); every registration comes
\* before the first area object; and every wall or beam panel that was
\* added is next given a label that was registered: a pier label for a
\* pier, a spandrel label for a coupling beam.
C22_LabelsBeforePanels ==
    sg_Running =>
        LET log == fn_ret.log IN
        /\ \A i \in sg_Registrations : \A j \in sg_Registrations :
               (log[i].prefix = log[j].prefix /\ log[i].base = log[j].base) => i = j
        /\ fn_ret.pc \in {"elements", "slabs", "returned"} =>
               \A e \in 1..Len(fn_ret.layout_defs) :
                   Cardinality({i \in sg_Registrations :
                       /\ log[i].api = IF fn_ret.layout_defs[e].is_coupling_beam
                                       THEN "SpandrelLabel.SetSpandrel" ELSE "PierLabel.SetPier"
                       /\ log[i].ok
                       /\ log[i].prefix = fn_ret.layout_defs[e].element_type_prefix
                       /\ log[i].base = fn_ret.layout_defs[e].base_name}) = 1
        /\ \A r \in sg_Registrations : \A a \in sg_Idx({"AreaObj.AddByCoord"}) : r < a
        /\ \A a \in sg_Idx({"AreaObj.AddByCoord"}) :
               (log[a].ok /\ log[a].base[1] # "SLAB") =>
                   /\ a < Len(log)
                   /\ log[a + 1].base = log[a].base
                   /\ log[a + 1].story = log[a].story /\ log[a + 1].cell = log[a].cell
                   /\ \/ /\ log[a].base[1] \in {"HCB", "VCB"}
                         /\ log[a + 1].api = "AreaObj.SetSpandrel"
                         /\ sg_RegisteredWith("SpandrelLabel.SetSpandrel", a + 1)
                      \/ /\ log[a].base[1] \notin {"HCB", "VCB"}
                         /\ log[a + 1].api = "AreaObj.SetPier"
                         /\ sg_RegisteredWith("PierLabel.SetPier", a + 1)
                   /\ fn_ret.pc \in {"elements", "slabs", "returned"} => log[a + 1].ok

\* A run over two stories of a plan with both kinds of element returned,
\* with meshed walls: every panel was added and labelled.
C22_Witness ==
    /\ sg_Running /\ fn_ret.pc = "returned" /\ fn_args.stories >= 2
    /\ fn_args.wall_mesh = <<2, 2>>
    /\ \E a \in sg_Idx({"AreaObj.SetSpandrel"}) : fn_ret.log[a].story = 2
    /\ \E a \in sg_Idx({"AreaObj.SetPier"}) : fn_ret.log[a].story = 2 /\ fn_ret.log[a].cell = 4

\* ---------------------------------------------- results/modal_results.py

\* The modes a result set is drawn with.
MaxModes == 2

N_ResultsModalPeriod == <<"Results", ".", "Modal", "Period">>

\* modal_results.py:65: the modes shown.
SHOWN_MODES == 10

\* A dictionary the function builds: `bound` is whether the local name
\* modal_info has been assigned, `error` the error entry ("" for none),
\* count -1 for no 'count' entry.
ModalInfo(bound, error, count, periods, frequencies) ==
    [bound |-> bound, error |-> error, count |-> count, periods |-> periods,
     frequencies |-> frequencies]

UnboundInfo == ModalInfo(FALSE, "", -1, << >>, << >>)
EmptyInfo == ModalInfo(TRUE, "", -1, << >>, << >>)

\* modal_results.py:67: freq_curr.
ModalFrequency(T_curr) == IF flt(Zero, T_curr) THEN fdiv(Float(1), T_curr) ELSE Zero

\* How a call of extract_modal_periods ends: "dict" (it returns
\* modal_info), "raised" (an exception leaves it) or "exit"; what it
\* printed; the dictionary.
ModalEnd(ret, printed, info) ==
    [fn |-> "extract_modal_periods", ret |-> ret, printed |-> printed, modal_info |-> info]

\* modal_results.py:78-82: the handler of `except Exception`: it prints,
\* then assigns modal_info['error']; when the name modal_info is not yet
\* bound the assignment raises UnboundLocalError, which leaves the
\* function.
modal_except(info, e) ==
    IF info.bound
    THEN ModalEnd("dict", <<"error while extracting">>, [info EXCEPT !.error = e])
    ELSE ModalEnd("raised", <<"error while extracting">>, info)

\* extract_modal_periods, modal_results.py:11-82.  results: sap_model and
\* its Results are there; q: what Results.ModalPeriod does (it raises, or
\* returns a status, the number of modes and the periods, `none` for None).
extract_modal_periods(sys, results, q) ==
    IF ~results THEN ModalEnd("dict", <<"results not available">>, EmptyInfo)
    ELSE IF q.raised THEN modal_except(UnboundInfo, "query failed")
    ELSE IF check_ret(sys, IntRet(q.code), N_ResultsModalPeriod, {0, 1}).exit
    THEN ModalEnd("exit", << >>, UnboundInfo)
    ELSE
        LET num_m == q.num_m
            p_val == IF q.none THEN << >> ELSE q.periods
            shown == IF num_m < SHOWN_MODES THEN num_m ELSE SHOWN_MODES
            upto == IF shown <= Len(p_val) THEN shown ELSE Len(p_val)
            found == ModalInfo(TRUE, "", num_m,
                               SubSeq(p_val, 1, IF Len(p_val) < SHOWN_MODES THEN Len(p_val)
                                                ELSE SHOWN_MODES),
                               [i \in 1..upto |-> ModalFrequency(p_val[i])])
        IN  IF num_m > 0 /\ Len(p_val) > 0
            THEN IF shown > Len(p_val)
                 THEN modal_except(found, "list index out of range")
                 ELSE ModalEnd("dict", <<"modes found">>, found)
            ELSE ModalEnd("dict", <<"no modal period results">>,
                          [EmptyInfo EXCEPT !.error = "no modal period data"])

\* The periods a result set may hold, in seconds.
ModalPeriodValues == {Zero, Float(1), Dec(1, 2)}

ModalPeriodLists ==
    UNION {[1..n -> ModalPeriodValues] : n \in 0..MaxModes}

\* What Results.ModalPeriod may do.
ModalQueries ==
    {[raised |-> TRUE, code |-> 0, num_m |-> 0, none |-> TRUE, periods |-> << >>]}
    \cup {[raised |-> FALSE, code |-> c, num_m |-> n, none |-> TRUE, periods |-> << >>] :
            c \in Codes, n \in 0..MaxModes}
    \cup {[raised |-> FALSE, code |-> c, num_m |-> n, none |-> FALSE, periods |-> p] :
            c \in Codes, n \in 0..MaxModes, p \in ModalPeriodLists}

md_ExtractModalPeriods ==
    /\ comp = "modal" /\ proc = "running" /\ fn_ret = NotCalled
    /\ fn_ret' = extract_modal_periods(System, fn_args.results, fn_args.query)
    /\ proc' = IF fn_ret'.ret = "exit" THEN "exited" ELSE proc
    /\ UNCHANGED <<System, comp, fn_args, restFn>>

InitModal ==
    /\ comp = "modal"
    /\ System = "loaded"
    /\ proc = "running"
    /\ IdleButFn
    /\ fn_args \in [results : BOOLEAN, query : ModalQueries]
    /\ fn_ret = NotCalled

NextModal == md_ExtractModalPeriods

SpecModal == InitModal /\ [][NextModal]_vars

\* --- the claim about the modal periods

\* The result set the query returned is empty: no mode, or no period.
md_EmptySet ==
    /\ ~fn_args.query.raised
    /\ fn_args.query.code \in {0, 1}
    /\ fn_args.query.num_m = 0 \/ fn_args.query.none \/ fn_args.query.periods = << >>

\* C24 as stated: when the result set is empty, or the query fails with an
\* exception, extract_modal_periods prints the condition, does not raise,
\* and returns a dictionary that carries an error entry.
C24_AsStated ==
    (comp = "modal" /\ fn_ret # NotCalled /\ fn_args.results
        /\ (md_EmptySet \/ fn_args.query.raised)) =>
        /\ fn_ret.ret = "dict"
        /\ fn_ret.printed # << >>
        /\ fn_ret.modal_info.error # ""

\* What the code keeps: an empty result set is a soft error.
C24_EmptySetIsSoftError ==
    (comp = "modal" /\ fn_ret # NotCalled /\ fn_args.results /\ md_EmptySet) =>
        /\ fn_ret.ret = "dict"
        /\ fn_ret.printed # << >>
        /\ fn_ret.modal_info.error # ""

\* ------------------------------- main.py and results/design_manager_GB.py

\* The driver's position and what it has done: the calls it made on the
\* application and what it printed (log), what StartDesign returned
\* (once it has returned: started), the rows of design_results, the files
\* written.
Driver(pc, log, rows, files) ==
    [fn |-> "main", pc |-> pc, log |-> log, started |-> FALSE, result |-> 0,
     design_results |-> rows, files |-> files]

mn_At(pc) == comp = "driver" /\ proc = "running" /\ fn_ret # NotCalled /\ fn_ret.pc = pc

\* The driver after a step that made `call` and returned or let an
\* exception go up.
mn_After(call, ok_pc, raised_pc, raised) ==
    [fn_ret EXCEPT !.pc = IF raised THEN raised_pc ELSE ok_pc, !.log = Append(@, call)]

\* main.py:16-17: the connector is made and asked for the model.
mn_Connect ==
    /\ comp = "driver" /\ proc = "running" /\ fn_ret = NotCalled
    /\ \E raised \in BOOLEAN :
        fn_ret' = Driver(IF raised THEN "raised" ELSE "loads", <<"ApiConnector">>, 0, {})
    /\ UNCHANGED <<System, proc, comp, fn_args, restFn>>

\* main.py:26-33: load patterns, gravity loads, the ULS combinations.
mn_Loads ==
    /\ mn_At("loads")
    /\ \E raised \in BOOLEAN :
        fn_ret' = mn_After("loads and combinations", "analysis", "raised", raised)
    /\ UNCHANGED <<System, proc, comp, fn_args, restFn>>

\* main.py:37-38: the analysis.
mn_Analysis ==
    /\ mn_At("analysis")
    /\ \E raised \in BOOLEAN :
        fn_ret' = mn_After("run_analysis", "design", "raised", raised)
    /\ UNCHANGED <<System, proc, comp, fn_args, restFn>>

\* main.py:44 and design_manager_GB.py:12-15: the design manager is made;
\* an exception goes to the handler of main.py:53.
mn_DesignManager ==
    /\ mn_At("design")
    /\ \E raised \in BOOLEAN :
        fn_ret' = mn_After("DesignManagerGB", "setup", "except", raised)
    /\ UNCHANGED <<System, proc, comp, fn_args, restFn>>

\* main.py:46 and design_manager_GB.py:17-30: setup_design.
mn_SetupDesign ==
    /\ mn_At("setup")
    /\ \E raised \in BOOLEAN :
        fn_ret' = mn_After("SetCode", "run", "except", raised)
    /\ UNCHANGED <<System, proc, comp, fn_args, restFn>>

\* A mutant of run_concrete_design: one that prints the failure and returns.
run_concrete_design_prints_only(result) == "returned"

\* design_manager_GB.py:38-42: how run_concrete_design ends on the value
\* StartDesign returned.
run_concrete_design(result) == IF result = 0 THEN "returned" ELSE "raised"

\* main.py:48 and design_manager_GB.py:32-42: run_concrete_design; the
\* call of StartDesign raises, or returns a status.
mn_RunDesign ==
    /\ mn_At("run")
    /\ \E o \in ApiOutcomes :
        fn_ret' =
            IF o.raised
            THEN [fn_ret EXCEPT !.pc = "except", !.log = Append(@, "StartDesign")]
            ELSE IF run_concrete_design(o.code) = "returned"
            THEN [fn_ret EXCEPT !.pc = "summary", !.started = TRUE, !.result = o.code,
                                !.log = @ \o <<"StartDesign", "print: design complete">>]
            ELSE [fn_ret EXCEPT !.pc = "except", !.started = TRUE, !.result = o.code,
                                !.log = @ \o <<"StartDesign", "print: design failed">>]
    /\ UNCHANGED <<System, proc, comp, fn_args, restFn>>

\* main.py:50 and design_manager_GB.py:48: get_design_summary reads the
\* names of the frames.
mn_SummaryNames ==
    /\ mn_At("summary")
    /\ \E raised \in BOOLEAN :
        fn_ret' = mn_After("FrameObj.GetNameList", "rows", "except", raised)
    /\ UNCHANGED <<System, proc, comp, fn_args, restFn>>

\* design_manager_GB.py:50-64: one frame's summary is read and kept.
mn_SummaryRow ==
    /\ mn_At("rows") /\ fn_ret.design_results < fn_args.frames
    /\ \E raised \in BOOLEAN :
        fn_ret' = [fn_ret EXCEPT !.pc = IF raised THEN "except" ELSE "rows",
                                 !.log = Append(@, "GetSummaryResults"),
                                 !.design_results = IF raised THEN @ ELSE @ + 1]
    /\ UNCHANGED <<System, proc, comp, fn_args, restFn>>

\* design_manager_GB.py:66: every frame is read.
mn_SummaryDone ==
    /\ mn_At("rows") /\ fn_ret.design_results >= fn_args.frames
    /\ fn_ret' = [fn_ret EXCEPT !.pc = "save"]
    /\ UNCHANGED <<System, proc, comp, fn_args, restFn>>

\* main.py:51-52 and design_manager_GB.py:68-86: save_results: nothing to
\* save, or the JSON file and then the spreadsheet; writing either may
\* raise.
mn_SaveResults ==
    /\ mn_At("save")
    /\ \/ /\ fn_ret.design_results = 0
          /\ fn_ret' = [fn_ret EXCEPT !.pc = "release",
                            !.log = @ \o <<"print: nothing to save", "print: design exported">>]
       \/ /\ fn_ret.design_results > 0
          /\ \E failAt \in 0..2 :
              fn_ret' = [fn_ret EXCEPT
                            !.pc = IF failAt = 0 THEN "release" ELSE "except",
                            !.files = IF failAt = 1 THEN {"json"}
                                      ELSE {"json", "xlsx"},
                            !.log = IF failAt = 0 THEN Append(@, "print: design exported") ELSE @]
    /\ UNCHANGED <<System, proc, comp, fn_args, restFn>>

\* main.py:53-54: the handler of the design stage prints the error.
mn_Except ==
    /\ mn_At("except")
    /\ fn_ret' = [fn_ret EXCEPT !.pc = "release", !.log = Append(@, "print: design error")]
    /\ UNCHANGED <<System, proc, comp, fn_args, restFn>>

\* main.py:57-58: the connection is released and main returns.
mn_Release ==
    /\ mn_At("release")
    /\ fn_ret' = [fn_ret EXCEPT !.pc = "done", !.log = Append(@, "release_etabs")]
    /\ UNCHANGED <<System, proc, comp, fn_args, restFn>>

InitDriver ==
    /\ comp = "driver"
    /\ System = "loaded"
    /\ proc = "running"
    /\ IdleButFn
    /\ fn_args \in [frames : 0..MaxMembers]
    /\ fn_ret = NotCalled

NextDriver ==
    \/ mn_Connect
    \/ mn_Loads
    \/ mn_Analysis
    \/ mn_DesignManager
    \/ mn_SetupDesign
    \/ mn_RunDesign
    \/ mn_SummaryNames
    \/ mn_SummaryRow
    \/ mn_SummaryDone
    \/ mn_SaveResults
    \/ mn_Except
    \/ mn_Release

SpecDriver == InitDriver /\ [][NextDriver]_vars

\* --- the claim about the design stage

mn_Logged(call) == \E i \in 1..Len(fn_ret.log) : fn_ret.log[i] = call

\* StartDesign has returned a nonzero status.
mn_DesignRefused ==
    comp = "driver" /\ fn_ret # NotCalled /\ fn_ret.started /\ fn_ret.result # 0

\* C25: once StartDesign has returned a nonzero status the design stage is
\* over: no design summary is read and no result file written; the failure
\* is printed and the driver goes on, not aborted; and when the driver has
\* ended it has released the connection, after the design stage.
C25_RefusedDesignEndsStage ==
    mn_DesignRefused =>
        /\ ~mn_Logged("FrameObj.GetNameList") /\ ~mn_Logged("GetSummaryResults")
        /\ fn_ret.design_results = 0 /\ fn_ret.files = {}
        /\ mn_Logged("print: design failed")
        /\ fn_ret.pc \in {"except", "release", "done"} /\ proc = "running"
        /\ fn_ret.pc \in {"release", "done"} => mn_Logged("print: design error")
        /\ fn_ret.pc = "done" =>
               /\ fn_ret.log[Len(fn_ret.log)] = "release_etabs"
               /\ \E i \in 1..(Len(fn_ret.log) - 1) : fn_ret.log[i] = "StartDesign"

\* The driver has ended after a design the engine refused.
C25_Witness ==
    /\ mn_DesignRefused /\ fn_ret.pc = "done" /\ fn_args.frames > 0
    /\ mn_Logged("release_etabs") /\ mn_Logged("print: design error")

\* ------------- the stage modules in the order materials, geometry, loads

\* The slab panels the geometry stage is asked to create.
MaxSlabs == 2

N_GetNameList == <<"AreaObj", ".", "Get", "Name", "List">>
N_SetDiaphragmSRD == <<"Set", "Diaphragm", "(", "SLAB_1", ",", " ", "SRD", ")">>
N_DefineDiaphragm == <<"Set", "Diaphragm", "(", "SRD", ")">>

\* One call on the application: the interface and name of the call, the
\* slab panel it is about (0 for none).
AppCall(api, slab) == [api |-> api, slab |-> slab]

\* The stages and the application's model: the stage to come (pc), what
\* each stage method returned so far (rets), the slab panels that exist
\* (SLAB_1 .. SLAB_slabs), the diaphragms defined, and the calls made.
Pipeline(pc, rets, slabs, diaphragms, log) ==
    [fn |-> "pipeline", pc |-> pc, rets |-> rets, slabs |-> slabs,
     diaphragms |-> diaphragms, log |-> log]

pl_At(pc) == comp = "pipeline" /\ proc = "running" /\ fn_ret # NotCalled /\ fn_ret.pc = pc

\* How a stage method of the builder ends when its module has ended as
\* `ret`: the process has exited, or the method returns True, or (an
\* exception caught, model_builder.py:76-78) False.
pl_Ended(st, ret, next, log, slabs, diaphragms) ==
    [st EXCEPT !.pc = IF ret = "exit" THEN "exit" ELSE next,
               !.rets = IF ret = "exit" THEN @ ELSE Append(@, ret = "returned"),
               !.log = @ \o log, !.slabs = slabs, !.diaphragms = diaphragms]

\* How a call checked by check_ret with the default ok_codes ends.
Checked(sys, o, name) ==
    IF o.raised THEN "raised"
    ELSE IF check_ret(sys, IntRet(o.code), name, {0}).exit THEN "exit"
    ELSE "returned"

\* modifiers.py:63-78: SetModifiers on the slab panels 1..n in turn; a
\* failure is counted and the loop goes on.
ModifierCalls(n) == [k \in 1..n |-> AppCall("AreaObj.SetModifiers", k)]

\* apply_slab_membrane_modifiers, modifiers.py:11-107, on a model with
\* `slabs` slab panels: what the call of GetNameList does (o), and the
\* calls made.
apply_slab_membrane_modifiers(sys, slabs, o) ==
    LET names == AppCall("AreaObj.GetNameList", 0) IN
    IF o.raised THEN [ret |-> "raised", log |-> <<names>>]
    ELSE IF check_ret(sys, IntRet(o.code), N_GetNameList, {0}).exit
    THEN [ret |-> "exit", log |-> <<names>>]
    ELSE [ret |-> "returned",
          log |-> <<names>> \o ModifierCalls(IF o.code = 0 THEN slabs ELSE 0)]

\* define_materials, materials/__init__.py:18-26: the materials and
\* sections (which end as `sections`), then the modifiers.
define_materials(sys, slabs, sections, o) ==
    IF sections # "returned"
    THEN [ret |-> sections, log |-> <<AppCall("define_all_materials_and_sections", 0)>>]
    ELSE LET r == apply_slab_membrane_modifiers(sys, slabs, o) IN
         [ret |-> r.ret,
          log |-> <<AppCall("define_all_materials_and_sections", 0)>> \o r.log]

\* model_builder.py:58-78 with materials/__init__.py:18-26.
pl_AddMaterials ==
    /\ comp = "pipeline" /\ proc = "running" /\ fn_ret = NotCalled
    /\ \E sections \in {"returned", "raised", "exit"}, o \in ApiOutcomes :
        LET r == define_materials(System, 0, sections, o) IN
        /\ fn_ret' = pl_Ended(Pipeline("materials", << >>, 0, fn_args.existing, << >>),
                              r.ret, "geometry", r.log, 0, fn_args.existing)
        /\ proc' = IF r.ret = "exit" THEN "exited" ELSE proc
    /\ UNCHANGED <<System, comp, fn_args, restFn>>

\* mesh_utils.py:236-254, for the slab panels from the k-th on, of n: each
\* is added, then assigned the diaphragm "SRD".  The call numbered failAt
\* (two calls per panel) has the outcome o; the others return 0.
RECURSIVE SlabCalls(_, _, _, _, _)
SlabCalls(sys, k, n, failAt, o) ==
    IF k > n THEN [ret |-> "returned", slabs |-> n, log |-> << >>]
    ELSE
        LET add == AppCall("AreaObj.AddByCoord", k)
            srd == AppCall("AreaObj.SetDiaphragm(SRD)", k)
            bad(name) == Checked(sys, o, name)
        IN  IF failAt = 2 * k - 1 /\ bad(N_AddByCoord) # "returned"
            THEN [ret |-> bad(N_AddByCoord), log |-> <<add>>,
                  slabs |-> IF o.raised THEN k - 1 ELSE k]
            ELSE IF failAt = 2 * k /\ bad(N_SetDiaphragmSRD) # "returned"
            THEN [ret |-> bad(N_SetDiaphragmSRD), slabs |-> k, log |-> <<add, srd>>]
            ELSE LET rest == SlabCalls(sys, k + 1, n, failAt, o) IN
                 [ret |-> rest.ret, slabs |-> rest.slabs, log |-> <<add, srd>> \o rest.log]

\* create_structural_geometry, geometry_manager.py:15-76: the walls and
\* beams (or columns and beams), which end as `members`, then the slabs.
create_structural_geometry(sys, n, members, failAt, o) ==
    IF members # "returned"
    THEN [ret |-> members, slabs |-> 0, log |-> <<AppCall("walls and beams", 0)>>]
    ELSE LET r == SlabCalls(sys, 1, n, failAt, o) IN
         [ret |-> r.ret, slabs |-> r.slabs, log |-> <<AppCall("walls and beams", 0)>> \o r.log]

\* model_builder.py:80-109 with geometry_manager.py:15-76.
pl_AddGeometry ==
    /\ pl_At("geometry")
    /\ \E members \in {"returned", "raised", "exit"},
          failAt \in 0..(2 * fn_args.slabs), o \in ApiOutcomes :
        LET r == create_structural_geometry(System, fn_args.slabs, members, failAt, o) IN
        /\ fn_ret' = pl_Ended(fn_ret, r.ret, "loads", r.log, r.slabs, fn_ret.diaphragms)
        /\ proc' = IF r.ret = "exit" THEN "exited" ELSE proc
    /\ UNCHANGED <<System, comp, fn_args, restFn>>

\* define_diaphragms, mass_source.py:65-108, on a model with the
\* diaphragms `defined`: GetNameList does g, the SetDiaphragm of "RIGID"
\* d1 and that of "SRD" d2, where the function comes to them.
define_diaphragms(sys, defined, g, d1, d2) ==
    LET names == AppCall("Diaphragm.GetNameList", 0)
        existing == IF g.code = 0 THEN defined ELSE {}
        rigid == AppCall("Diaphragm.SetDiaphragm(RIGID)", 0)
        semi == AppCall("Diaphragm.SetDiaphragm(SRD)", 0)
        r1 == IF "RIGID" \in existing THEN "returned" ELSE Checked(sys, d1, N_DefineDiaphragm)
        r2 == IF "SRD" \in existing THEN "returned" ELSE Checked(sys, d2, N_DefineDiaphragm)
        log1 == IF "RIGID" \in existing THEN << >> ELSE <<rigid>>
        log2 == IF "SRD" \in existing THEN << >> ELSE <<semi>>
        new1 == IF "RIGID" \notin existing /\ r1 = "returned" /\ d1.code = 0
                THEN {"RIGID"} ELSE {}
        new2 == IF "SRD" \notin existing /\ r2 = "returned" /\ d2.code = 0
                THEN {"SRD"} ELSE {}
    IN  IF Checked(sys, g, N_GetNameList) # "returned"
        THEN [ret |-> Checked(sys, g, N_GetNameList), diaphragms |-> defined,
              log |-> <<names>>]
        ELSE IF r1 # "returned"
        THEN [ret |-> r1, diaphragms |-> defined, log |-> <<names>> \o log1]
        ELSE [ret |-> r2, diaphragms |-> defined \cup new1 \cup new2,
              log |-> <<names>> \o log1 \o log2]

\* define_all_loads, loads/__init__.py:22-65: the load patterns (which end
\* as `patterns`), the diaphragms, then the mass source, the spectrum and
\* the assignments (which end as `rest`).
define_all_loads(sys, defined, patterns, g, d1, d2, rest) ==
    IF patterns # "returned"
    THEN [ret |-> patterns, diaphragms |-> defined,
          log |-> <<AppCall("define_all_load_patterns", 0)>>]
    ELSE LET r == define_diaphragms(sys, defined, g, d1, d2) IN
         [ret |-> IF r.ret = "returned" THEN rest ELSE r.ret,
          diaphragms |-> r.diaphragms,
          log |-> <<AppCall("define_all_load_patterns", 0)>> \o r.log
                    \o (IF r.ret = "returned" THEN <<AppCall("mass, spectrum, loads", 0)>>
                        ELSE << >>)]

\* model_builder.py:111-136 with loads/__init__.py:22-65.
pl_AddLoads ==
    /\ pl_At("loads")
    /\ \E patterns \in {"returned", "raised", "exit"}, g \in ApiOutcomes,
          d1 \in ApiOutcomes, d2 \in ApiOutcomes, rest \in {"returned", "raised", "exit"} :
        LET r == define_all_loads(System, fn_ret.diaphragms, patterns, g, d1, d2, rest) IN
        /\ fn_ret' = pl_Ended(fn_ret, r.ret, "done", r.log, fn_ret.slabs, r.diaphragms)
        /\ proc' = IF r.ret = "exit" THEN "exited" ELSE proc
    /\ UNCHANGED <<System, comp, fn_args, restFn>>

\* The model the stages start on: the diaphragms it already has, and the
\* slab panels the configuration makes the geometry stage create.
InitPipeline ==
    /\ comp = "pipeline"
    /\ System = "loaded"
    /\ proc = "running"
    /\ IdleButFn
    /\ fn_args \in [existing : SUBSET {"RIGID", "SRD"}, slabs : 0..MaxSlabs]
    /\ fn_ret = NotCalled

NextPipeline == pl_AddMaterials \/ pl_AddGeometry \/ pl_AddLoads

SpecPipeline == InitPipeline /\ [][NextPipeline]_vars

\* --- the claims about the order of the stages

pl_Idx(api) == {i \in 1..Len(fn_ret.log) : fn_ret.log[i].api = api}

\* C26 as stated: whenever a slab panel is assigned the diaphragm "SRD",
\* a diaphragm of that name has been defined in the model before: it was
\* there at the start, or a SetDiaphragm("SRD") on the diaphragm interface
\* comes earlier in the run.
C26_AsStated ==
    (comp = "pipeline" /\ fn_ret # NotCalled) =>
        \A i \in pl_Idx("AreaObj.SetDiaphragm(SRD)") :
            \/ "SRD" \in fn_args.existing
            \/ \E j \in pl_Idx("Diaphragm.SetDiaphragm(SRD)") : j < i

\* What the code keeps: the panels are assigned during the geometry stage
\* and the diaphragm is defined by the loads stage, after them.
C26_DefinedAfterAssigned ==
    (comp = "pipeline" /\ fn_ret # NotCalled) =>
        \A i \in pl_Idx("AreaObj.SetDiaphragm(SRD)") :
            \A j \in pl_Idx("Diaphragm.SetDiaphragm(SRD)") : i < j

\* C27 as stated: when the materials stage and then the geometry stage
\* have completed, every slab panel the geometry stage created has had the
\* modifiers applied.
C27_AsStated ==
    (comp = "pipeline" /\ fn_ret # NotCalled /\ fn_ret.pc \in {"loads", "done"}
        /\ fn_ret.rets[1] /\ fn_ret.rets[2]) =>
        \A k \in 1..fn_ret.slabs :
            \E i \in pl_Idx("AreaObj.SetModifiers") : fn_ret.log[i].slab = k

\* What the code keeps: the modifiers are applied by the materials stage
\* to the slab panels that exist then; the sequence applies them to none.
C27_NoPanelModified ==
    (comp = "pipeline" /\ fn_ret # NotCalled) => pl_Idx("AreaObj.SetModifiers") = {}

\* ------------------------------------------------ core/model_builder.py

\* The stage calls of one run of the builder.
MaxCalls == 4

\* The builder: its model handle (FALSE for None), its registries, the
\* number of entries of its story-height map; the stage modules and
\* application calls it has invoked; what the geometry module has created
\* in the application; the calls made on it and the last one's result.
Builder(sap_model, walls, beams, slabs, stories, invoked, created, calls, last) ==
    [fn |-> "ETABSModelBuilder", sap_model |-> sap_model, wall_names |-> walls,
     coupling_beam_names |-> beams, slab_names |-> slabs, story_heights |-> stories,
     invoked |-> invoked, created |-> created, calls |-> calls, last |-> last]

Created(walls, beams, slabs) == [walls |-> walls, beams |-> beams, slabs |-> slabs]

\* model_builder.py:20-29: the builder as constructed.
NewBuilder ==
    Builder(FALSE, << >>, << >>, << >>, 0, << >>, Created(0, 0, 0), 0,
            [method |-> "__init__", ret |-> TRUE])

bd_Ready == comp = "builder" /\ proc = "running" /\ fn_ret.calls < MaxCalls

\* A mutant of the check of the handle: one that never finds it missing.
no_handle_never(b) == FALSE

\* model_builder.py:69-70, :91-92, :122-123, :149-150, :176-177, :196-197:
\* `if not self.sap_model: raise ETABSModelError(...)`.
no_handle(b) == ~b.sap_model

\* The builder after a method has returned ret.
bd_Returned(b, method, ret) ==
    [b EXCEPT !.calls = @ + 1, !.last = [method |-> method, ret |-> ret]]

\* A stage method that hands the model to its module and keeps nothing:
\* the module returns, raises (caught: False) or ends the process.
StageCall(b, method, module, outcome) ==
    IF no_handle(b) THEN bd_Returned(b, method, FALSE)
    ELSE [bd_Returned(b, method, outcome = "returned") EXCEPT
              !.invoked = Append(@, module)]

\* build_model, model_builder.py:31-56: connect, initialize, take the
\* model; `how` is where it ends.
bd_BuildModel ==
    /\ bd_Ready
    /\ \E how \in {"connect failed", "initialize failed", "no model", "built"} :
        fn_ret' = [bd_Returned(fn_ret, "build_model", how = "built") EXCEPT
                      !.sap_model = IF how = "built" THEN TRUE
                                    ELSE IF how = "no model" THEN FALSE ELSE @,
                      !.invoked = Append(@, "connector")]
    /\ UNCHANGED <<System, proc, comp, fn_args, restFn>>

\* add_materials_and_sections, model_builder.py:58-78.
bd_AddMaterials ==
    /\ bd_Ready
    /\ \E outcome \in {"returned", "raised", "exit"} :
        /\ fn_ret' = StageCall(fn_ret, "add_materials_and_sections", "define_materials", outcome)
        /\ proc' = IF ~no_handle(fn_ret) /\ outcome = "exit" THEN "exited" ELSE proc
    /\ UNCHANGED <<System, comp, fn_args, restFn>>

\* add_geometry, model_builder.py:80-109: the module creates the objects
\* of the configuration and returns the names of the walls (columns) and
\* beams and the story heights; the three are kept.
bd_AddGeometry ==
    /\ bd_Ready
    /\ \E outcome \in {"returned", "raised", "exit"} :
        LET b == StageCall(fn_ret, "add_geometry", "create_structural_geometry", outcome)
            c == fn_args IN
        /\ fn_ret' =
              IF no_handle(fn_ret) THEN b
              ELSE IF outcome = "returned"
              THEN [b EXCEPT !.wall_names = NameList("W", c.walls),
                             !.coupling_beam_names = NameList("CB", c.beams),
                             !.story_heights = c.stories,
                             !.created = Created(@.walls + c.walls, @.beams + c.beams,
                                                 @.slabs + c.slabs)]
              ELSE b
        /\ proc' = IF ~no_handle(fn_ret) /\ outcome = "exit" THEN "exited" ELSE proc
    /\ UNCHANGED <<System, comp, fn_args, restFn>>

\* add_loads, model_builder.py:111-136.
bd_AddLoads ==
    /\ bd_Ready
    /\ \E outcome \in {"returned", "raised", "exit"} :
        /\ fn_ret' = StageCall(fn_ret, "add_loads", "define_all_loads", outcome)
        /\ proc' = IF ~no_handle(fn_ret) /\ outcome = "exit" THEN "exited" ELSE proc
    /\ UNCHANGED <<System, comp, fn_args, restFn>>

\* save_model, model_builder.py:188-219, on the builder: what it invokes
\* on the way (the directory, RefreshView, Save) and what it returns.
bd_Saved(sys, b, method, dirMade, oRefresh, oSave) ==
    LET r == save_model(sys, b.sap_model, dirMade, oRefresh, oSave)
        refreshed == dirMade /\ ~oRefresh.raised /\ r # "exit"
    IN  [bd_Returned(b, method, r = "True") EXCEPT
            !.invoked = @ \o (IF ~b.sap_model THEN << >>
                              ELSE IF ~dirMade THEN <<"makedirs">>
                              ELSE IF ~refreshed THEN <<"makedirs", "RefreshView">>
                              ELSE <<"makedirs", "RefreshView", "Save">>)]

bd_SaveModel ==
    /\ bd_Ready
    /\ \E dirMade \in BOOLEAN, oRefresh \in AnOutcomes, oSave \in AnOutcomes :
        /\ fn_ret' = bd_Saved(System, fn_ret, "save_model", dirMade, oRefresh, oSave)
        /\ proc' = IF save_model(System, fn_ret.sap_model, dirMade, oRefresh, oSave) = "exit"
                   THEN "exited" ELSE proc
    /\ UNCHANGED <<System, comp, fn_args, restFn>>

\* run_analysis, model_builder.py:138-163: save_model (its result is not
\* read), then the analysis module.
bd_RunAnalysis ==
    /\ bd_Ready
    /\ \E dirMade \in BOOLEAN, oRefresh \in AnOutcomes, oSave \in AnOutcomes,
          outcome \in {"returned", "raised", "exit"} :
        LET saved == bd_Saved(System, fn_ret, "run_analysis", dirMade, oRefresh, oSave)
            exits == save_model(System, fn_ret.sap_model, dirMade, oRefresh, oSave) = "exit"
        IN
        /\ fn_ret' =
              IF no_handle(fn_ret) THEN bd_Returned(fn_ret, "run_analysis", FALSE)
              ELSE IF exits THEN saved
              ELSE [saved EXCEPT !.invoked = Append(@, "run_analysis"),
                                 !.last = [method |-> "run_analysis",
                                           ret |-> outcome = "returned"]]
        /\ proc' = IF ~no_handle(fn_ret) /\ (exits \/ outcome = "exit")
                   THEN "exited" ELSE proc
    /\ UNCHANGED <<System, comp, fn_args, restFn>>

\* extract_results, model_builder.py:165-186.
bd_ExtractResults ==
    /\ bd_Ready
    /\ \E outcome \in {"returned", "raised", "exit"} :
        /\ fn_ret' = StageCall(fn_ret, "extract_results", "extract_all_results", outcome)
        /\ proc' = IF ~no_handle(fn_ret) /\ outcome = "exit" THEN "exited" ELSE proc
    /\ UNCHANGED <<System, comp, fn_args, restFn>>

\* get_model_info, model_builder.py:227-241: the counts it reports.
get_model_info(b) ==
    [wall_count |-> Len(b.wall_names), coupling_beam_count |-> Len(b.coupling_beam_names),
     slab_count |-> Len(b.slab_names), story_count |-> b.story_heights]

\* The objects the configuration makes the geometry module create.
InitBuilder ==
    /\ comp = "builder"
    /\ System = "loaded"
    /\ proc = "running"
    /\ IdleButFn
    /\ fn_args \in [walls : {MaxMembers}, beams : {1}, slabs : 0..MaxSlabs,
                     stories : {MaxStories}]
    /\ fn_ret = NewBuilder

NextBuilder ==
    \/ bd_BuildModel
    \/ bd_AddMaterials
    \/ bd_AddGeometry
    \/ bd_AddLoads
    \/ bd_SaveModel
    \/ bd_RunAnalysis
    \/ bd_ExtractResults

SpecBuilder == InitBuilder /\ [][NextBuilder]_vars

\* --- the claims about the builder

\* add_geometry has just returned True, for the first time.
bd_GeometryAdded ==
    /\ comp = "builder" /\ fn_ret.last = [method |-> "add_geometry", ret |-> TRUE]
    /\ fn_ret.created = Created(fn_args.walls, fn_args.beams, fn_args.slabs)

\* C28 as stated: after a successful add_geometry the counts get_model_info
\* reports are the numbers of objects the geometry stage created, the slab
\* count the number of slab panels.
C28_AsStated ==
    bd_GeometryAdded =>
        /\ get_model_info(fn_ret).wall_count = fn_ret.created.walls
        /\ get_model_info(fn_ret).coupling_beam_count = fn_ret.created.beams
        /\ get_model_info(fn_ret).story_count = fn_args.stories
        /\ get_model_info(fn_ret).slab_count = fn_ret.created.slabs

\* What the code keeps: the counts of the walls and beams and of the
\* stories are those of the geometry stage; the slab count stays 0.
C28_SlabCountStaysZero ==
    bd_GeometryAdded =>
        /\ get_model_info(fn_ret).wall_count = fn_ret.created.walls
        /\ get_model_info(fn_ret).coupling_beam_count = fn_ret.created.beams
        /\ get_model_info(fn_ret).story_count = fn_args.stories
        /\ get_model_info(fn_ret).slab_count = 0

StageMethods ==
    {"add_materials_and_sections", "add_geometry", "add_loads", "run_analysis",
     "extract_results", "save_model"}

\* C30: in any sequence of calls, a stage method called while the builder
\* holds no model handle returns False, invokes neither its module nor the
\* application, and leaves the registries and the story-height map as they
\* were.
C30_NoHandleNoEffect ==
    [][(comp = "builder" /\ ~fn_ret.sap_model /\ fn_ret'.calls = fn_ret.calls + 1
            /\ fn_ret'.last.method \in StageMethods) =>
          /\ ~fn_ret'.last.ret
          /\ fn_ret'.invoked = fn_ret.invoked
          /\ fn_ret'.wall_names = fn_ret.wall_names
          /\ fn_ret'.coupling_beam_names = fn_ret.coupling_beam_names
          /\ fn_ret'.slab_names = fn_ret.slab_names
          /\ fn_ret'.story_heights = fn_ret.story_heights
          /\ fn_ret'.sap_model = fn_ret.sap_model
          /\ proc' = proc]_vars

\* A stage method has returned False on a builder that lost its handle
\* after the geometry was added: the registries are as the geometry stage
\* left them and nothing was invoked since the handle was lost.
C30_Witness ==
    /\ comp = "builder" /\ ~fn_ret.sap_model /\ fn_ret.last.method \in StageMethods
    /\ ~fn_ret.last.ret
    /\ fn_ret.wall_names # << >> /\ fn_ret.story_heights > 0
    /\ fn_ret.invoked = <<"connector", "create_structural_geometry", "connector">>

====
